---------------------------- MODULE TeamsProofs ----------------------------
(***************************************************************************)
(* Proofs about Teams, for every set of accounts, teams and handlers in    *)
(* flight and any number of calls.                                         *)
(***************************************************************************)
EXTENDS Teams, TLAPS

\* Two versions of one row.
Same(m, x) == m.made = x.made /\ m.team = x.team /\ m.user = x.user

-----------------------------------------------------------------------------
(* What a handler in flight holds *)

Reads ==
    [op : {"idle"}]
    \cup [op : {"role"}, team : TeamIds, row : Member, role : Roles]
    \cup [op : {"transfer"}, team : TeamIds, row : Member]
    \cup [op : {"transfer"}, team : TeamIds, row : Member, others : SUBSET Member]
    \cup [op : Counted, team : TeamIds, rows : SUBSET Member, users : SUBSET Users,
          panel : BOOLEAN]
    \cup [op : Counted, team : TeamIds, rows : SUBSET Member, users : SUBSET Users,
          panel : BOOLEAN, orphans : SUBSET Users]
    \cup [op : {"invite"}, team : TeamIds, user : Users, role : Roles, made : 1 .. MaxCalls]
    \cup [op : {"accept"}, invite : Invite, made : 1 .. MaxCalls]
    \cup [op : {"activate"}, invite : Invite]

\* The rows it has read are rows of its team, and those it will clear are
\* not the one it makes the owner; the accounts it looks at exist.
ReadInv(q) ==
    /\ q.op \in OwnershipOps => team[q.team] # "none"
    /\ q.op \in {"role", "transfer"} => q.row.team = q.team
    /\ q.op = "transfer" /\ "others" \in DOMAIN q =>
          \A x \in q.others : x.team = q.team /\ ~Same(x, q.row)
    /\ q.op \in Counted =>
          /\ \A x \in q.rows : x.team = q.team /\ x.user \in q.users
          /\ \A u \in q.users : account[u] # "none"

Held(q) ==
    IF q.op = "role" THEN {q.row}
    ELSE IF q.op = "transfer" THEN {q.row} \cup (IF "others" \in DOMAIN q THEN q.others ELSE {})
    ELSE IF q.op \in Counted THEN q.rows
    ELSE {}

\* The number of a call that has made a row or an invitation, or had.
Taken(n) ==
    \/ \E m \in members : m.made = n
    \/ \E i \in invites : i.made = n
    \/ \E r \in Requests : \E x \in Held(request[r]) : x.made = n
    \/ \E r \in Requests : request[r].op \in {"accept", "activate"} /\ request[r].invite.made = n

\* A number is used once, so that a row and an invitation are known by it.
Numbered ==
    /\ calls \in 0 .. MaxCalls
    /\ \A n \in 0 .. MaxCalls : Taken(n) => n <= calls
    /\ \A r \in Requests : request[r].op \in {"invite", "accept"} =>
          /\ request[r].made <= calls
          /\ ~Taken(request[r].made)
          /\ \A p \in Requests \ {r} : request[p].op \in {"invite", "accept"} =>
                request[p].made # request[r].made
    /\ \A i, j \in invites : i.made = j.made => i.team = j.team /\ i.user = j.user
    /\ \A r \in Requests : request[r].op \in {"accept", "activate"} =>
          \A i \in invites : i.made = request[r].invite.made =>
              i.team = request[r].invite.team /\ i.user = request[r].invite.user

TypeInv ==
    /\ TypeOK
    /\ request \in [Requests -> Reads]
    /\ \A r \in Requests : ReadInv(request[r])
    /\ Numbered

-----------------------------------------------------------------------------
(* Ownership *)

\* The teams the property is about.
Ruled == {t \in TeamIds \ (contested \cup deposed) : team[t] = "live"}

\* A transfer of an uncontested team has it for itself.
Alone ==
    \A r, p \in Requests :
        /\ r # p
        /\ request[r].op = "transfer" /\ request[p].op \in OwnershipOps
        /\ request[p].team = request[r].team
        => request[r].team \in contested

\* What was read of the owner is still so: a change of role and a removal
\* have not got the owner's row, and a transfer knows every owner.
KeepsOwner(q) ==
    /\ q.op = "role" => \A m \in members : Same(m, q.row) => ~m.owner
    /\ q.op = "remove" /\ ~q.panel =>
          \A m \in members, x \in q.rows : Same(m, x) => ~m.owner
    /\ q.op = "transfer" =>
          /\ \A m \in members : Same(m, q.row) => m.owner = q.row.owner /\ m.role = q.row.role
          /\ q.row.owner => \A m \in Owners(q.team) : Same(m, q.row)
          /\ "others" \in DOMAIN q =>
                \A m \in Owners(q.team) : Same(m, q.row) \/ \E x \in q.others : Same(m, x)

OwnerInv ==
    /\ Alone
    /\ \A r \in Requests :
          request[r].op \in OwnershipOps /\ request[r].team \in Ruled => KeepsOwner(request[r])
    /\ \A t \in Ruled : \E m \in Owners(t) : Owners(t) = {m} /\ m.role = "ADMIN"

-----------------------------------------------------------------------------
(* Accounts without a team *)

\* Whether the request deletes the row.
Dooms(q, m) == IF q.op = "delete" THEN m.team = q.team ELSE \E x \in q.rows : Same(m, x)

HasCounted(q) == q.op \in Counted /\ "orphans" \in DOMAIN q

\* An account that the count kept has a row the request leaves alone.
Kept(q, u) ==
    \/ u \in Superusers \cup spared \cup q.orphans
    \/ \E m \in members : m.user = u /\ ~Dooms(q, m)

OrphanInv ==
    /\ \A r, p \in Requests : \A u \in Users :
          /\ r # p /\ HasCounted(request[r]) /\ HasCounted(request[p])
          /\ u \in request[r].users /\ u \in request[p].users
          => u \in spared
    /\ \A r \in Requests : HasCounted(request[r]) =>
          \A u \in request[r].users : Live(u) => Kept(request[r], u)
    /\ \A u \in leavers : u \in Users /\ account[u] # "none"
    /\ OrphansAccounted

-----------------------------------------------------------------------------
(* Rows, numbers and what is held *)

LEMMA ReadShape ==
    ASSUME NEW q \in Reads
    PROVE  /\ q.op \in OwnershipOps => q.team \in TeamIds
           /\ q.op \in {"role", "transfer"} => q.row \in Member
           /\ q.op = "role" => q.role \in Roles
           /\ q.op = "transfer" /\ "others" \in DOMAIN q => q.others \subseteq Member
           /\ q.op = "invite" => q.team \in TeamIds /\ q.user \in Users /\ q.role \in Roles
           /\ q.op \in {"invite", "accept"} => q.made \in 1 .. MaxCalls
           /\ q.op \in {"accept", "activate"} => q.invite \in Invite
  BY DEF Reads, Counted, OwnershipOps

LEMMA CountedShape ==
    ASSUME NEW q \in Reads, q.op \in Counted
    PROVE  /\ q.team \in TeamIds /\ q.rows \subseteq Member
           /\ q.users \subseteq Users /\ q.panel \in BOOLEAN
           /\ "orphans" \in DOMAIN q => q.orphans \subseteq Users
  BY DEF Reads, Counted

LEMMA Updated ==
    ASSUME request \in [Requests -> Reads], NEW r \in Requests, NEW read \in Reads,
           request' = [request EXCEPT ![r] = read]
    PROVE  /\ request' \in [Requests -> Reads]
           /\ request'[r] = read
           /\ \A p \in Requests \ {r} : request'[p] = request[p]
  OBVIOUS

LEMMA IdleHolds == Idle \in Reads /\ Held(Idle) = {} /\ Idle.op = "idle"
  BY DEF Reads, Idle, Held, Counted

LEMMA RowOfType ==
    ASSUME NEW t \in TeamIds, NEW u \in Joined(t)
    PROVE  RowOf(t, u) \in members /\ RowOf(t, u).team = t /\ RowOf(t, u).user = u
<1>1. \E m \in members : m.team = t /\ m.user = u
  BY DEF Joined
<1> QED
  BY <1>1 DEF RowOf

LEMMA NewInviteType ==
    ASSUME NEW n \in 1 .. MaxCalls, NEW t \in TeamIds, NEW u \in Users, NEW role \in Roles,
           NEW kind \in {"FIRST_TIME_ACTIVATION", "CROSS_TEAM_JOIN"}
    PROVE  /\ NewInvite(n, t, u, role, kind) \in Invite
           /\ NewInvite(n, t, u, role, kind).made = n
           /\ NewInvite(n, t, u, role, kind).team = t
           /\ NewInvite(n, t, u, role, kind).user = u
  BY DEF NewInvite, Invite

\* What a step does to the numbers: it gives those of N, to invitations of
\* U to T and to rows, and lets a handler hold what there is, or carry the
\* number of its call.
Gives(N, T, U) ==
    /\ calls' \in {calls, calls + 1} /\ calls' \in 0 .. MaxCalls
    /\ \A n \in N : /\ n \in 1 .. calls' /\ ~Taken(n)
                    /\ \A p \in Requests : request'[p].op \in {"invite", "accept"} =>
                          request'[p].made # n
    /\ \A m \in members' : m.made \in N \/ \E x \in members : x.made = m.made
    /\ \A i \in invites' :
          \/ i.made \in N /\ i.team = T /\ i.user = U
          \/ \E x \in invites : x.made = i.made /\ x.team = i.team /\ x.user = i.user

Holds(N) ==
    /\ request' \in [Requests -> Reads]
    /\ \A p \in Requests :
          /\ \A x \in Held(request'[p]) : Taken(x.made)
          /\ request'[p].op \in {"accept", "activate"} =>
                request'[p] = request[p] \/ request'[p].invite \in invites
          /\ request'[p].op \in {"invite", "accept"} =>
                \/ request'[p] = request[p]
                \/ /\ calls' = calls + 1 /\ request'[p].made = calls' /\ N = {}
                   /\ \A o \in Requests \ {p} : request'[o] = request[o]

\* No team and no account is ever unmade.
Standing ==
    /\ \A s \in TeamIds : team[s] # "none" => team'[s] # "none"
    /\ \A v \in Users : account[v] # "none" => account'[v] # "none"

LEMMA NumbersStep ==
    ASSUME Numbered, NEW N, NEW T, NEW U, Gives(N, T, U), Holds(N)
    PROVE  Numbered'
<1> USE DEF Gives, Holds
<1>1. ASSUME NEW n, Taken(n)'
      PROVE  Taken(n) \/ n \in N
  BY <1>1 DEF Taken
<1>2. calls \in 0 .. MaxCalls /\ calls <= calls' /\ calls' <= MaxCalls
  BY DEF Numbered
<1>3. \A n \in 0 .. MaxCalls : Taken(n)' => n <= calls'
  BY <1>1, <1>2 DEF Numbered
<1>4. ASSUME NEW r \in Requests, request'[r].op \in {"invite", "accept"}
      PROVE  /\ request'[r].made <= calls'
             /\ (~Taken(request[r].made))'
             /\ \A p \in Requests \ {r} : request'[p].op \in {"invite", "accept"} =>
                   request'[p].made # request'[r].made
  <2>1. PICK n \in 1 .. MaxCalls : n = request'[r].made
    BY <1>4, ReadShape
  <2>2. n <= calls' /\ ~Taken(n) /\ n \notin N
    <3>1. CASE request'[r] = request[r]
      BY <3>1, <2>1, <1>2, <1>4 DEF Numbered
    <3>2. CASE n = calls' /\ calls' = calls + 1 /\ N = {}
      BY <3>2, <1>2 DEF Numbered
    <3> QED
      BY <3>1, <3>2, <2>1, <1>4
  <2>3. ~Taken(n)'
    BY <2>2, <1>1
  <2>4. (~Taken(request[r].made))'
    BY <2>1, <2>3 DEF Taken
  <2>5. ASSUME NEW p \in Requests \ {r}, request'[p].op \in {"invite", "accept"}
        PROVE  request'[p].made # n
    <3>1. PICK k \in 1 .. MaxCalls : k = request'[p].made
      BY <2>5, ReadShape
    <3> QED
      BY <2>1, <2>5, <3>1, <1>2, <1>4 DEF Numbered
  <2> QED
    BY <2>1, <2>2, <2>4, <2>5
<1>5. \A i, j \in invites' : i.made = j.made => i.team = j.team /\ i.user = j.user
  BY DEF Numbered, Taken
<1>6. \A r \in Requests : request'[r].op \in {"accept", "activate"} =>
         \A i \in invites' : i.made = request'[r].invite.made =>
             i.team = request'[r].invite.team /\ i.user = request'[r].invite.user
  BY DEF Numbered, Taken
<1> QED
  BY <1>2, <1>3, <1>4, <1>5, <1>6 DEF Numbered
\* A row more, of a user who was not in the team, and maybe an invitation.
RowsTyped ==
    /\ account' \in [Users -> {"none", "provisioned", "active", "deleted"}]
    /\ team' \in [TeamIds -> {"none", "live", "deleted"}]
    /\ \A s \in TeamIds : team[s] = "live" => team'[s] = "live"
    /\ \A v \in Users : Live(v) => Live(v)'

AddsRow(new) ==
    /\ new \in Member /\ new.user \notin Joined(new.team)
    /\ members' = members \cup {new}
    /\ invites' \subseteq Invite
    /\ \A i \in invites' : i \in invites \/ (i.team = new.team /\ i.user = new.user)
    /\ team'[new.team] = "live" /\ Live(new.user)'

LEMMA NewRowKeepsType ==
    ASSUME TypeOK, RowsTyped, NEW new, AddsRow(new)
    PROVE  TypeOK'
<1> USE DEF RowsTyped, AddsRow
<1>1. \A m, k \in members' : m.team = k.team /\ m.user = k.user => m = k
  BY DEF TypeOK, Joined
<1>2. \A x \in members \cup invites : x.team \in TeamIds /\ x.user \in Users
  BY DEF TypeOK, Member, Invite
<1>3. \A x \in members' \cup invites' : team'[x.team] = "live" /\ Live(x.user)'
  BY <1>2 DEF TypeOK
<1> QED
  BY <1>1, <1>3 DEF TypeOK

\* What is held stays what it was.
LEMMA ReadsKept ==
    ASSUME TypeInv, Standing,
           \A p \in Requests : request'[p] = request[p] \/ ReadInv(request[p])'
    PROVE  \A p \in Requests : ReadInv(request[p])'
<1> SUFFICES ASSUME NEW p \in Requests, request'[p] = request[p]
             PROVE  ReadInv(request[p])'
  OBVIOUS
<1>1. PICK q \in Reads : q = request[p]
  BY DEF TypeInv
<1>2. ReadInv(q)
  BY <1>1 DEF TypeInv
<1>3. ReadInv(q)'
  <2>1. q.op \in OwnershipOps => q.team \in TeamIds
    BY ReadShape
  <2>2. q.op \in Counted => q.users \subseteq Users
    BY CountedShape
  <2> QED
    BY <1>2, <2>1, <2>2 DEF ReadInv, Standing
<1> QED
  BY <1>1, <1>3 DEF ReadInv
-----------------------------------------------------------------------------
(* Kinds of step *)

LEMMA FreshCall ==
    ASSUME TypeInv, Call
    PROVE  /\ calls' = calls + 1 /\ calls' \in 1 .. MaxCalls
           /\ ~Taken(calls')
           /\ \A p \in Requests : request[p].op \in {"invite", "accept"} => request[p].made # calls'
<1>1. calls' = calls + 1 /\ calls' \in 1 .. MaxCalls
  BY TeamsAssumption DEF TypeInv, Numbered, Call
<1>2. PICK n \in 1 .. MaxCalls : n = calls'
  BY <1>1
<1>3. ~(n <= calls)
  BY <1>1, <1>2 DEF TypeInv, Numbered
<1>4. ~Taken(n)
  BY <1>3 DEF TypeInv, Numbered
<1>5. \A p \in Requests : request[p].op \in {"invite", "accept"} => request[p].made # n
  BY <1>3 DEF TypeInv, Numbered
<1> QED
  BY <1>1, <1>2, <1>4, <1>5 DEF Taken

\* Nothing is read.
LEMMA IdleStep ==
    ASSUME TypeInv, Standing, request' \in [Requests -> Reads],
           \A p \in Requests : request'[p] = request[p] \/ request'[p] = Idle,
           NEW N, NEW T, NEW U, Gives(N, T, U)
    PROVE  (\A p \in Requests : ReadInv(request[p])') /\ Numbered'
<1>1. ReadInv(Idle)'
  BY IdleHolds DEF ReadInv, OwnershipOps, Counted
<1>2. \A p \in Requests : request'[p] = request[p] \/ ReadInv(request[p])'
  BY <1>1 DEF ReadInv
<1>3. \A p \in Requests : ReadInv(request[p])'
  BY <1>2, ReadsKept
<1>4. Holds(N)
  <2> SUFFICES ASSUME NEW p \in Requests
               PROVE  /\ \A x \in Held(request'[p]) : Taken(x.made)
                      /\ request'[p].op \in {"accept", "activate"} => request'[p] = request[p]
                      /\ request'[p].op \in {"invite", "accept"} => request'[p] = request[p]
    BY DEF Holds
  <2>1. CASE request'[p] = Idle
    BY <2>1, IdleHolds
  <2>2. CASE request'[p] = request[p]
    BY <2>2 DEF Taken
  <2> QED
    BY <2>1, <2>2
<1>5. Numbered'
  BY <1>4, NumbersStep DEF TypeInv
<1> QED
  BY <1>3, <1>5

\* What a new call makes has its number.
LEMMA StampedCall ==
    ASSUME TypeInv, Standing, Call, UNCHANGED request, NEW T, NEW U,
           \A m \in members' : m.made = calls' \/ \E x \in members : x.made = m.made,
           \A i \in invites' :
              \/ i.made = calls' /\ i.team = T /\ i.user = U
              \/ \E x \in invites : x.made = i.made /\ x.team = i.team /\ x.user = i.user
    PROVE  /\ request' \in [Requests -> Reads]
           /\ \A p \in Requests : ReadInv(request[p])'
           /\ Numbered'
<1>1. request' \in [Requests -> Reads] /\ \A p \in Requests : request'[p] = request[p]
  BY DEF TypeInv
<1>2. PICK N : N = {calls'}
  OBVIOUS
<1>3. Gives(N, T, U)
  <2>1. calls' = calls + 1 /\ calls' \in 1 .. MaxCalls /\ ~Taken(calls')
    BY FreshCall
  <2>2. \A n \in N : n \in 1 .. calls' /\ ~Taken(n)
    BY <1>2, <2>1 DEF Taken
  <2>3. \A p \in Requests : request'[p].op \in {"invite", "accept"} => request'[p].made # calls'
    BY <1>1, FreshCall
  <2> QED
    BY <1>2, <2>1, <2>2, <2>3 DEF Gives
<1> QED
  BY <1>1, <1>3, IdleStep
\* What a handler makes has the number it carries.
LEMMA StampedRead ==
    ASSUME TypeInv, Standing, NEW r \in Requests, request[r].op \in {"invite", "accept"},
           Done(r), NEW T, NEW U,
           \A m \in members' : m.made = request[r].made \/ \E x \in members : x.made = m.made,
           \A i \in invites' :
              \/ i.made = request[r].made /\ i.team = T /\ i.user = U
              \/ \E x \in invites : x.made = i.made /\ x.team = i.team /\ x.user = i.user
    PROVE  /\ request' \in [Requests -> Reads]
           /\ \A p \in Requests : ReadInv(request[p])'
           /\ Numbered'
<1>1. /\ request' \in [Requests -> Reads] /\ request'[r] = Idle
      /\ \A p \in Requests \ {r} : request'[p] = request[p]
  BY Updated, IdleHolds DEF TypeInv, Done
<1>2. PICK n : n = request[r].made
  OBVIOUS
<1>3. Gives({n}, T, U)
  <2>1. /\ n \in 1 .. calls /\ calls' = calls /\ calls \in 0 .. MaxCalls
        /\ ~Taken(n)
        /\ \A p \in Requests \ {r} : request[p].op \in {"invite", "accept"} => request[p].made # n
    <3>1. /\ n <= calls /\ ~Taken(request[r].made) /\ calls \in 0 .. MaxCalls
          /\ \A p \in Requests \ {r} : request[p].op \in {"invite", "accept"} => request[p].made # n
      BY <1>2 DEF TypeInv, Numbered
    <3>2. n \in 1 .. MaxCalls
      BY <1>2, ReadShape DEF TypeInv
    <3> QED
      BY <1>2, <3>1, <3>2, TeamsAssumption DEF Taken, Done
  <2>2. \A p \in Requests : request'[p].op \in {"invite", "accept"} => request'[p].made # n
    BY <1>1, <2>1, IdleHolds
  <2> QED
    BY <1>2, <2>1, <2>2 DEF Gives
<1>4. \A p \in Requests : request'[p] = request[p] \/ request'[p] = Idle
  BY <1>1
<1> QED
  BY <1>1, <1>3, <1>4, IdleStep

\* Nothing new is made and a handler, if any, ends.
LEMMA EndStep ==
    ASSUME TypeInv, Standing, calls' \in {calls, calls + 1}, calls' \in 0 .. MaxCalls,
           UNCHANGED request \/ \E r \in Requests : request' = [request EXCEPT ![r] = Idle],
           \A m \in members' : \E x \in members : x.made = m.made,
           \A i \in invites' :
              \E x \in invites : x.made = i.made /\ x.team = i.team /\ x.user = i.user
    PROVE  /\ request' \in [Requests -> Reads]
           /\ \A p \in Requests : ReadInv(request[p])'
           /\ Numbered'
<1>1. /\ request' \in [Requests -> Reads]
      /\ \A p \in Requests : request'[p] = request[p] \/ request'[p] = Idle
  BY Updated, IdleHolds DEF TypeInv
<1>2. Gives({}, 0, 0)
  BY DEF Gives
<1> QED
  BY <1>1, <1>2, IdleStep

\* A handler reads.
LEMMA ReadStep ==
    ASSUME TypeInv, NEW r \in Requests, NEW read \in Reads, ReadInv(read),
           request' = [request EXCEPT ![r] = read], UNCHANGED tables,
           \/ calls' = calls /\ read.op \notin {"invite", "accept"}
           \/ Call /\ (read.op \in {"invite", "accept"} => read.made = calls + 1),
           \A x \in Held(read) : Taken(x.made),
           read.op \in {"accept", "activate"} => read.invite \in invites
    PROVE  TypeInv'
<1>1. /\ request' \in [Requests -> Reads] /\ request'[r] = read
      /\ \A p \in Requests \ {r} : request'[p] = request[p]
  BY Updated DEF TypeInv
<1>2. calls' \in {calls, calls + 1} /\ calls' \in 0 .. MaxCalls
  BY FreshCall DEF TypeInv, Numbered
<1>3. Gives({}, 0, 0)
  BY <1>2 DEF Gives, tables
<1>4. Holds({})
  <2>1. \A p \in Requests : \A x \in Held(request'[p]) : Taken(x.made)
    BY <1>1 DEF Taken
  <2>2. read.op \in {"invite", "accept"} => calls' = calls + 1 /\ read.made = calls'
    BY DEF Call
  <2> QED
    BY <1>1, <2>1, <2>2 DEF Holds
<1>5. Numbered'
  BY <1>3, <1>4, NumbersStep DEF TypeInv
<1>6. ReadInv(read)'
  BY DEF ReadInv, tables
<1>7. \A p \in Requests : request'[p] = request[p] \/ ReadInv(request[p])'
  BY <1>1, <1>6 DEF ReadInv
<1>8. Standing
  BY DEF Standing, tables
<1>9. \A p \in Requests : ReadInv(request[p])'
  BY <1>7, <1>8, ReadsKept
<1>10. TypeOK'
  BY DEF TypeInv, TypeOK, tables, Live
<1> QED
  BY <1>1, <1>5, <1>9, <1>10 DEF TypeInv
-----------------------------------------------------------------------------
(* Types *)

LEMMA CreateTeamTypes ==
    ASSUME TypeInv, NEW t \in TeamIds, NEW u \in Users, CreateTeam(t, u)
    PROVE  TypeInv'
<1> USE DEF CreateTeam
<1>1. PICK new : new = NewMember(calls + 1, t, u, "ADMIN", TRUE)
  OBVIOUS
<1>2. calls' \in 0 .. MaxCalls /\ calls' = calls + 1
  BY FreshCall
<1>3. TypeOK
  BY DEF TypeInv
<1>4. RowsTyped /\ Standing /\ team'[t] = "live" /\ Live(u)' /\ u \notin Joined(t)
  BY <1>3 DEF TypeOK, RowsTyped, Standing, Live, Joined
<1>5. new \in Member /\ new.made = calls' /\ new.team = t /\ new.user = u
  BY <1>1, <1>2 DEF NewMember, Member, Roles
<1>6. members' = members \cup {new}
  BY <1>1
<1>7. AddsRow(new)
  BY <1>5, <1>6, <1>2, <1>3, <1>4 DEF AddsRow, TypeOK
<1>8. TypeOK'
  BY <1>2, <1>3, <1>4, <1>7, NewRowKeepsType
<1>9. \A m \in members' : m.made = calls' \/ \E x \in members : x.made = m.made
  BY <1>5, <1>7 DEF AddsRow
<1>10. \A i \in invites' :
         \/ i.made = calls' /\ i.team = t /\ i.user = u
         \/ \E x \in invites : x.made = i.made /\ x.team = i.team /\ x.user = i.user
  OBVIOUS
<1>11. Call /\ UNCHANGED request
  OBVIOUS
<1>12. /\ request' \in [Requests -> Reads]
       /\ \A p \in Requests : ReadInv(request[p])'
       /\ Numbered'
  BY ONLY TypeInv, <1>4, <1>8, <1>9, <1>10, <1>11, StampedCall
<1> QED
  BY <1>12, <1>8 DEF TypeInv

LEMMA AddMemberTypes ==
    ASSUME TypeInv, NEW t \in TeamIds, NEW u \in Users, AddMember(t, u)
    PROVE  TypeInv'
<1> USE DEF AddMember
<1> DEFINE invite == NewInvite(calls + 1, t, u, "MEMBER", "FIRST_TIME_ACTIVATION")
<1>1. PICK new : new = NewMember(calls + 1, t, u, "MEMBER", FALSE)
  OBVIOUS
<1>2. calls' \in 1 .. MaxCalls /\ calls' = calls + 1
  BY FreshCall
<1>3. TypeOK
  BY DEF TypeInv
<1>4. RowsTyped /\ Standing /\ Live(u)'
  BY <1>3 DEF TypeOK, Live, RowsTyped, Standing
<1>5. invite \in Invite /\ invite.made = calls' /\ invite.team = t /\ invite.user = u
  BY <1>2, NewInviteType DEF Roles
<1>6. \A i \in invites' : i \in invites \/ i = invite
  OBVIOUS
<1> HIDE DEF invite
<1>7. new \in Member /\ new.made = calls' /\ new.team = t /\ new.user = u
  BY <1>1, <1>2 DEF NewMember, Member, Roles
<1>8. members' = members \cup {new}
  BY <1>1
<1>9. AddsRow(new)
  BY <1>7, <1>8, <1>2, <1>3, <1>4, <1>5, <1>6 DEF AddsRow, TypeOK
<1>10. TypeOK'
  BY <1>2, <1>3, <1>4, <1>9, NewRowKeepsType
<1>11. \A m \in members' : m.made = calls' \/ \E x \in members : x.made = m.made
  BY <1>7, <1>9 DEF AddsRow
<1>12. \A i \in invites' :
         \/ i.made = calls' /\ i.team = t /\ i.user = u
         \/ \E x \in invites : x.made = i.made /\ x.team = i.team /\ x.user = i.user
  BY <1>5, <1>6
<1>13. Call /\ UNCHANGED request
  OBVIOUS
<1>14. /\ request' \in [Requests -> Reads]
       /\ \A p \in Requests : ReadInv(request[p])'
       /\ Numbered'
  BY ONLY TypeInv, <1>4, <1>10, <1>11, <1>12, <1>13, StampedCall
<1> QED
  BY <1>14, <1>10 DEF TypeInv

LEMMA AdminAddMemberTypes ==
    ASSUME TypeInv, NEW t \in TeamIds, NEW u \in Users, NEW role \in Roles,
           AdminAddMember(t, u, role)
    PROVE  TypeInv'
<1> USE DEF AdminAddMember
<1>1. PICK new : new = NewMember(calls + 1, t, u, role, FALSE)
  OBVIOUS
<1>2. calls' \in 1 .. MaxCalls /\ calls' = calls + 1
  BY FreshCall
<1>3. TypeOK
  BY DEF TypeInv
<1>4. RowsTyped /\ Standing /\ Live(u)'
  BY <1>3 DEF TypeOK, Live, RowsTyped, Standing
<1>5. new \in Member /\ new.made = calls' /\ new.team = t /\ new.user = u
  BY <1>1, <1>2 DEF NewMember, Member, Roles
<1>6. members' = members \cup {new}
  BY <1>1
<1>7. AddsRow(new)
  BY <1>5, <1>6, <1>2, <1>3, <1>4 DEF AddsRow, TypeOK
<1>8. TypeOK'
  BY <1>2, <1>3, <1>4, <1>7, NewRowKeepsType
<1>9. \A m \in members' : m.made = calls' \/ \E x \in members : x.made = m.made
  BY <1>5, <1>7 DEF AddsRow
<1>10. \A i \in invites' :
         \/ i.made = calls' /\ i.team = t /\ i.user = u
         \/ \E x \in invites : x.made = i.made /\ x.team = i.team /\ x.user = i.user
  OBVIOUS
<1>11. Call /\ UNCHANGED request
  OBVIOUS
<1>12. /\ request' \in [Requests -> Reads]
       /\ \A p \in Requests : ReadInv(request[p])'
       /\ Numbered'
  BY ONLY TypeInv, <1>4, <1>8, <1>9, <1>10, <1>11, StampedCall
<1> QED
  BY <1>12, <1>8 DEF TypeInv

LEMMA AdminInviteTypes ==
    ASSUME TypeInv, NEW t \in TeamIds, NEW u \in Users, NEW role \in Roles,
           AdminInvite(t, u, role)
    PROVE  TypeInv'
<1> USE DEF AdminInvite
<1> DEFINE invite == NewInvite(calls + 1, t, u, role, "FIRST_TIME_ACTIVATION")
<1>1. PICK new : new = NewMember(calls + 1, t, u, role, FALSE)
  OBVIOUS
<1>2. calls' \in 1 .. MaxCalls /\ calls' = calls + 1
  BY FreshCall
<1>3. TypeOK
  BY DEF TypeInv
<1>4. RowsTyped /\ Standing /\ Live(u)' /\ u \notin Joined(t)
  BY <1>3 DEF TypeOK, Live, RowsTyped, Standing, Joined
<1>5. invite \in Invite /\ invite.made = calls' /\ invite.team = t /\ invite.user = u
  BY <1>2, NewInviteType
<1>6. \A i \in invites' : i \in invites \/ i = invite
  OBVIOUS
<1> HIDE DEF invite
<1>7. new \in Member /\ new.made = calls' /\ new.team = t /\ new.user = u
  BY <1>1, <1>2 DEF NewMember, Member, Roles
<1>8. members' = members \cup {new}
  BY <1>1
<1>9. AddsRow(new)
  BY <1>7, <1>8, <1>2, <1>3, <1>4, <1>5, <1>6 DEF AddsRow, TypeOK
<1>10. TypeOK'
  BY <1>2, <1>3, <1>4, <1>9, NewRowKeepsType
<1>11. \A m \in members' : m.made = calls' \/ \E x \in members : x.made = m.made
  BY <1>7, <1>9 DEF AddsRow
<1>12. \A i \in invites' :
         \/ i.made = calls' /\ i.team = t /\ i.user = u
         \/ \E x \in invites : x.made = i.made /\ x.team = i.team /\ x.user = i.user
  BY <1>5, <1>6
<1>13. Call /\ UNCHANGED request
  OBVIOUS
<1>14. /\ request' \in [Requests -> Reads]
       /\ \A p \in Requests : ReadInv(request[p])'
       /\ Numbered'
  BY ONLY TypeInv, <1>4, <1>10, <1>11, <1>12, <1>13, StampedCall
<1> QED
  BY <1>14, <1>10 DEF TypeInv
LEMMA CreateInvitationTypes ==
    ASSUME TypeInv, NEW r \in Requests, CreateInvitation(r)
    PROVE  TypeInv'
<1> DEFINE q == request[r]
<1>1. q.op = "invite" /\ Done(r) /\ UNCHANGED <<team, history>> /\ team[q.team] = "live"
  BY DEF CreateInvitation
<1>2. PICK n \in 1 .. MaxCalls, t \in TeamIds, u \in Users, role \in Roles :
         n = q.made /\ t = q.team /\ u = q.user /\ role = q.role
  BY <1>1, ReadShape DEF TypeInv
<1>3. PICK kind \in {"FIRST_TIME_ACTIVATION", "CROSS_TEAM_JOIN"} :
         invites' = invites \cup {NewInvite(n, t, u, role, kind)}
  BY <1>2 DEF CreateInvitation
<1>4. PICK new : new = NewMember(n, t, u, role, FALSE)
  OBVIOUS
<1>5. \/ UNCHANGED <<account, members>> /\ account[u] = "active"
      \/ /\ account' = [account EXCEPT ![u] = "provisioned"] /\ u \notin Joined(t)
         /\ account[u] \in {"none", "provisioned"} /\ members' = members \cup {new}
  BY <1>2, <1>4 DEF CreateInvitation
<1>6. PICK invite \in Invite :
         /\ invites' = invites \cup {invite}
         /\ invite.made = n /\ invite.team = t /\ invite.user = u
  BY <1>3, NewInviteType
<1>7. new \in Member /\ new.made = n /\ new.team = t /\ new.user = u
  BY <1>4 DEF NewMember, Member
<1>8. TypeOK /\ team[t] = "live" /\ team' = team
  BY <1>1, <1>2 DEF TypeInv
<1>9. RowsTyped /\ Standing /\ Live(u)'
  BY <1>5, <1>8 DEF TypeOK, Live, RowsTyped, Standing
<1>10. TypeOK'
  <2>1. CASE UNCHANGED <<account, members>>
    BY <1>6, <1>8, <1>9, <2>1 DEF TypeOK, Live
  <2>2. CASE u \notin Joined(t) /\ members' = members \cup {new}
    <3>1. AddsRow(new)
      BY <1>6, <1>7, <1>8, <1>9, <2>2 DEF AddsRow, TypeOK
    <3> QED
      BY <1>8, <1>9, <3>1, NewRowKeepsType
  <2> QED
    BY <1>5, <2>1, <2>2
<1>11. \A m \in members' : m.made = q.made \/ \E x \in members : x.made = m.made
  BY <1>2, <1>5, <1>7
<1>12. \A i \in invites' :
         \/ i.made = q.made /\ i.team = t /\ i.user = u
         \/ \E x \in invites : x.made = i.made /\ x.team = i.team /\ x.user = i.user
  BY <1>2, <1>6
<1>13. q.op \in {"invite", "accept"} /\ Done(r)
  BY <1>1
<1>14. /\ request' \in [Requests -> Reads]
       /\ \A p \in Requests : ReadInv(request[p])'
       /\ Numbered'
  BY ONLY TypeInv, r \in Requests, <1>9, <1>11, <1>12, <1>13, StampedRead
<1> QED
  BY <1>10, <1>14 DEF TypeInv

\* Marking an invitation leaves it what it is.
LEMMA AcceptedVersions ==
    ASSUME TypeOK, NEW i, invites' = Accepted(i)
    PROVE  /\ invites' \subseteq Invite
           /\ \A x \in invites' :
                 \E y \in invites : y.made = x.made /\ y.team = x.team /\ y.user = x.user
<1>1. ASSUME NEW x \in invites'
      PROVE  /\ x \in Invite
             /\ \E y \in invites : y.made = x.made /\ y.team = x.team /\ y.user = x.user
  <2>1. CASE x \in invites
    BY <2>1 DEF TypeOK
  <2>2. CASE x \notin invites
    <3>1. PICK y \in invites : x = [y EXCEPT !.status = "accepted"]
      BY <2>2 DEF Accepted, NowInvite
    <3> QED
      BY <3>1 DEF TypeOK, Invite
  <2> QED
    BY <2>1, <2>2
<1> QED
  BY <1>1

LEMMA AcceptInvitationTypes ==
    ASSUME TypeInv, NEW r \in Requests, AcceptInvitation(r)
    PROVE  TypeInv'
<1> DEFINE q == request[r]
<1>1. /\ q.op = "accept" /\ Done(r) /\ UNCHANGED <<account, team, history>>
      /\ invites' = Accepted(q.invite)
      /\ NowInvite(q.invite) # {} /\ q.invite.user \notin Joined(q.invite.team)
  BY DEF AcceptInvitation
<1>2. PICK n \in 1 .. MaxCalls, i \in Invite : n = q.made /\ i = q.invite
  BY <1>1, ReadShape DEF TypeInv
<1>3. i.team \in TeamIds /\ i.user \in Users /\ i.role \in Roles
  BY DEF Invite
<1>4. PICK new : new = NewMember(n, i.team, i.user, i.role, FALSE)
  OBVIOUS
<1>5. members' = members \cup {new}
  BY <1>2, <1>4 DEF AcceptInvitation
<1>6. new \in Member /\ new.made = n /\ new.team = i.team /\ new.user = i.user
  BY <1>3, <1>4 DEF NewMember, Member
<1>7. TypeOK
  BY DEF TypeInv
<1>8. invites' = Accepted(i)
  BY <1>1, <1>2
<1>9. /\ invites' \subseteq Invite
      /\ \A x \in invites' :
            \E y \in invites : y.made = x.made /\ y.team = x.team /\ y.user = x.user
  BY <1>7, <1>8, AcceptedVersions
<1>10. RowsTyped /\ Standing
  BY <1>1, <1>7 DEF TypeOK, Live, RowsTyped, Standing
<1>11. team[i.team] = "live" /\ Live(i.user)
  <2>1. PICK j \in invites : j.made = i.made
    BY <1>1, <1>2 DEF NowInvite
  <2>2. j.team = i.team /\ j.user = i.user
    BY <1>1, <1>2, <2>1 DEF TypeInv, Numbered
  <2> QED
    BY <1>7, <2>2 DEF TypeOK
<1>12. TypeOK'
  <2>1. \A x \in invites' : team'[x.team] = "live" /\ Live(x.user)'
    BY <1>1, <1>7, <1>9 DEF TypeOK, Live
  <2>2. \A m, k \in members' : m.team = k.team /\ m.user = k.user => m = k
    BY <1>1, <1>2, <1>5, <1>6, <1>7 DEF TypeOK, Joined
  <2> QED
    BY <1>1, <1>5, <1>6, <1>7, <1>9, <1>11, <2>1, <2>2 DEF TypeOK, Live
<1>13. \A m \in members' : m.made = q.made \/ \E x \in members : x.made = m.made
  BY <1>2, <1>5, <1>6
<1>14. \A x \in invites' :
         \/ x.made = q.made /\ x.team = 0 /\ x.user = 0
         \/ \E y \in invites : y.made = x.made /\ y.team = x.team /\ y.user = x.user
  BY <1>9
<1>15. q.op \in {"invite", "accept"} /\ Done(r)
  BY <1>1
<1>16. /\ request' \in [Requests -> Reads]
       /\ \A p \in Requests : ReadInv(request[p])'
       /\ Numbered'
  BY ONLY TypeInv, r \in Requests, <1>10, <1>13, <1>14, <1>15, StampedRead
<1> QED
  BY <1>12, <1>16 DEF TypeInv
\* Whatever is left is a version of what there was.
Versions ==
    /\ account' \in [Users -> {"none", "provisioned", "active", "deleted"}]
    /\ team' \in [TeamIds -> {"none", "live", "deleted"}]
    /\ members' \subseteq Member /\ invites' \subseteq Invite
    /\ \A m \in members' : \E x \in members : Same(m, x)
    /\ \A m, n \in members' : Same(m, n) => m = n
    /\ \A i \in invites' :
          \E x \in invites : x.made = i.made /\ x.team = i.team /\ x.user = i.user
    /\ \A x \in members' \cup invites' : team'[x.team] = "live" /\ Live(x.user)'

LEMMA VersionsStep ==
    ASSUME TypeInv, Standing, Versions,
           UNCHANGED calls \/ Call,
           UNCHANGED request \/ \E r \in Requests : request' = [request EXCEPT ![r] = Idle]
    PROVE  TypeInv'
<1>1. \A m, n \in members' : m.team = n.team /\ m.user = n.user => m = n
  BY DEF TypeInv, TypeOK, Same, Versions
<1>2. TypeOK'
  BY <1>1 DEF TypeOK, Versions
<1>3. calls' \in {calls, calls + 1} /\ calls' \in 0 .. MaxCalls
  BY FreshCall DEF TypeInv, Numbered
<1>4. /\ \A m \in members' : \E x \in members : x.made = m.made
      /\ \A i \in invites' :
            \E x \in invites : x.made = i.made /\ x.team = i.team /\ x.user = i.user
  BY DEF Versions, Same
<1>5. /\ request' \in [Requests -> Reads]
      /\ \A p \in Requests : ReadInv(request[p])'
      /\ Numbered'
  BY <1>3, <1>4, EndStep
<1> QED
  BY <1>2, <1>5 DEF TypeInv

\* The members stay, accounts and teams live on, invitations are versions.
LEMMA InvitesStep ==
    ASSUME TypeInv, UNCHANGED <<team, members>>,
           account' \in [Users -> {"none", "provisioned", "active", "deleted"}],
           \A v \in Users : account[v] # "none" => account'[v] # "none",
           \A v \in Users : Live(v) => Live(v)',
           invites' \subseteq Invite,
           \A i \in invites' :
              \E x \in invites : x.made = i.made /\ x.team = i.team /\ x.user = i.user,
           UNCHANGED calls \/ Call,
           UNCHANGED request \/ \E r \in Requests : request' = [request EXCEPT ![r] = Idle]
    PROVE  TypeInv'
<1>1. TypeOK
  BY DEF TypeInv
<1>2. \A x \in members \cup invites : x.user \in Users
  BY <1>1 DEF TypeOK, Member, Invite
<1>3. \A i \in invites' : team'[i.team] = "live" /\ Live(i.user)'
  BY <1>1, <1>2 DEF TypeOK, Live
<1>4. Versions
  BY <1>1, <1>2, <1>3 DEF TypeOK, Versions, Same
<1>5. Standing
  BY DEF Standing
<1> QED
  BY <1>4, <1>5, VersionsStep

LEMMA InvitationTypes ==
    ASSUME TypeInv, NEW i \in invites, DeleteInvitation(i) \/ Expire(i) \/ MaybeClaimInvitation(i)
    PROVE  TypeInv'
<1>1. TypeOK
  BY DEF TypeInv
<1>2. UNCHANGED <<account, team, members, request>> /\ (UNCHANGED calls \/ Call)
  BY DEF DeleteInvitation, Expire, MaybeClaimInvitation
<1>3. /\ invites' \subseteq Invite
      /\ \A x \in invites' :
            \E y \in invites : y.made = x.made /\ y.team = x.team /\ y.user = x.user
  <2>1. CASE DeleteInvitation(i)
    BY <1>1, <2>1 DEF DeleteInvitation, TypeOK
  <2>2. CASE MaybeClaimInvitation(i)
    BY <1>1, <2>2, AcceptedVersions DEF MaybeClaimInvitation
  <2>3. CASE Expire(i)
    <3>1. PICK x : x = [i EXCEPT !.status = "expired"]
      OBVIOUS
    <3>2. x \in Invite /\ x.made = i.made /\ x.team = i.team /\ x.user = i.user
      BY <1>1, <3>1 DEF TypeOK, Invite
    <3> QED
      BY <1>1, <2>3, <3>1, <3>2 DEF Expire, TypeOK
  <2> QED
    BY <2>1, <2>2, <2>3
<1> QED
  BY <1>1, <1>2, <1>3, InvitesStep DEF TypeOK, Live

LEMMA AccountTypes ==
    ASSUME TypeInv, NEW u \in Users, SignIn(u) \/ CreateUser(u)
    PROVE  TypeInv'
<1>1. TypeOK
  BY DEF TypeInv
<1>2. /\ account' \in [Users -> {"none", "provisioned", "active", "deleted"}]
      /\ \A v \in Users : account[v] # "none" => account'[v] # "none"
      /\ \A v \in Users : Live(v) => Live(v)'
  BY <1>1 DEF TypeOK, Live, SignIn, CreateUser
<1>3. /\ invites' \subseteq Invite
      /\ \A x \in invites' :
            \E y \in invites : y.made = x.made /\ y.team = x.team /\ y.user = x.user
  BY <1>1 DEF TypeOK, SignIn, CreateUser
<1>4. UNCHANGED <<team, members, request>> /\ Call
  BY DEF SignIn, CreateUser
<1> QED
  BY <1>2, <1>3, <1>4, InvitesStep

LEMMA SetPasswordTypes ==
    ASSUME TypeInv, NEW r \in Requests, SetPassword(r)
    PROVE  TypeInv'
<1>1. TypeOK
  BY DEF TypeInv
<1>2. PICK i \in Invite : i = request[r].invite
  BY ReadShape DEF SetPassword, TypeInv
<1>3. account[i.user] = "provisioned" /\ account' = [account EXCEPT ![i.user] = "active"]
  BY <1>2 DEF SetPassword
<1>4. /\ account' \in [Users -> {"none", "provisioned", "active", "deleted"}]
      /\ \A v \in Users : account[v] # "none" => account'[v] # "none"
      /\ \A v \in Users : Live(v) => Live(v)'
  BY <1>1, <1>3 DEF TypeOK, Live
<1>5. invites' = Accepted(i)
  BY <1>2 DEF SetPassword
<1>6. /\ invites' \subseteq Invite
      /\ \A x \in invites' :
            \E y \in invites : y.made = x.made /\ y.team = x.team /\ y.user = x.user
  BY <1>1, <1>5, AcceptedVersions
<1>7. UNCHANGED <<team, members, calls>> /\ request' = [request EXCEPT ![r] = Idle]
  BY DEF SetPassword, Done
<1> QED
  BY <1>4, <1>6, <1>7, InvitesStep

LEMMA FailTypes ==
    ASSUME TypeInv, NEW r \in Requests, Fail(r)
    PROVE  TypeInv'
<1>1. TypeOK
  BY DEF TypeInv
<1>2. UNCHANGED <<account, team, members, invites, calls>> /\ request' = [request EXCEPT ![r] = Idle]
  BY DEF Fail, Done, tables
<1> QED
  BY <1>1, <1>2, InvitesStep DEF TypeOK, Live
-----------------------------------------------------------------------------
(* The rows a change of role and a transfer write *)

Cleared(q, x) == \E y \in q.others : Same(x, y)
Promoted(q, x) == Same(x, q.row) /\ (~q.row.owner \/ q.row.role # "ADMIN")

\* The row x after the request.
Edited(q, x) ==
    IF q.op = "role"
    THEN IF Same(x, q.row) /\ q.row.role # q.role THEN Rewritten(x, q.role, x.owner) ELSE x
    ELSE IF Cleared(q, x) THEN Rewritten(x, x.role, FALSE)
    ELSE IF Promoted(q, x)
    THEN Rewritten(x, IF q.row.role = "ADMIN" THEN x.role ELSE "ADMIN",
                      IF q.row.owner THEN x.owner ELSE TRUE)
    ELSE x

LEMMA EditedType ==
    ASSUME NEW q \in Reads, NEW x \in Member,
           q.op = "role" \/ q.op = "transfer"
    PROVE  Edited(q, x) \in Member /\ Same(Edited(q, x), x)
  BY ReadShape DEF Edited, Rewritten, NewMember, Member, Same, Roles

LEMMA ChangeRoleRows ==
    ASSUME TypeInv, NEW r \in Requests, ChangeRole(r)
    PROVE  members' = {Edited(request[r], x) : x \in members}
<1>1. PICK q \in Reads : q = request[r]
  BY DEF TypeInv
<1>2. members \subseteq Member
  BY DEF TypeInv, TypeOK
<1>3. q.op = "role"
  BY <1>1 DEF ChangeRole
<1>4. CASE q.row.role = q.role
  <2>1. members' = members
    BY <1>1, <1>4 DEF ChangeRole
  <2>2. \A x \in members : Edited(q, x) = x
    BY <1>3, <1>4 DEF Edited
  <2> QED
    BY <1>1, <2>1, <2>2
<1>5. CASE q.row.role # q.role
  <2>1. members' = (members \ Now(q.row)) \cup {Rewritten(m, q.role, m.owner) : m \in Now(q.row)}
    BY <1>1, <1>5 DEF ChangeRole
  <2>2. \A x \in members : /\ x \in Now(q.row) => Edited(q, x) = Rewritten(x, q.role, x.owner)
                           /\ x \notin Now(q.row) => Edited(q, x) = x
    BY <1>3, <1>5 DEF Edited, Now, Same
  <2>3. Now(q.row) \subseteq members
    BY DEF Now
  <2> HIDE DEF Now
  <2> QED
    BY <1>1, <2>1, <2>2, <2>3
<1> QED
  BY <1>4, <1>5

LEMMA TransferRows ==
    ASSUME TypeInv, NEW r \in Requests, TransferOwnership(r)
    PROVE  members' = {Edited(request[r], x) : x \in members}
<1>1. PICK q \in Reads : q = request[r]
  BY DEF TypeInv
<1>2. q.op = "transfer" /\ "others" \in DOMAIN q
  BY <1>1 DEF TransferOwnership
<1>3. PICK cleared : cleared = {x \in members : Cleared(q, x)}
  OBVIOUS
<1>4. PICK target : target = {x \in members : Promoted(q, x)}
  OBVIOUS
<1>5. members' = (members \ (cleared \cup target))
            \cup {Rewritten(m, m.role, FALSE) : m \in cleared}
            \cup {Rewritten(m, IF q.row.role = "ADMIN" THEN m.role ELSE "ADMIN",
                            IF q.row.owner THEN m.owner ELSE TRUE) : m \in target}
  <2>1. cleared = UNION {Now(m) : m \in q.others}
    BY <1>3 DEF Cleared, Now, Same
  <2>2. target = IF ~q.row.owner \/ q.row.role # "ADMIN" THEN Now(q.row) ELSE {}
    BY <1>4 DEF Promoted, Now, Same
  <2> QED
    BY <1>1, <2>1, <2>2 DEF TransferOwnership
<1>6. \A x \in members : ~(x \in cleared /\ x \in target)
  BY <1>1, <1>2, <1>3, <1>4 DEF TypeInv, ReadInv, Cleared, Promoted, Same
<1>7. \A x \in members :
        /\ x \in cleared => Edited(q, x) = Rewritten(x, x.role, FALSE)
        /\ x \in target => Edited(q, x) =
              Rewritten(x, IF q.row.role = "ADMIN" THEN x.role ELSE "ADMIN",
                        IF q.row.owner THEN x.owner ELSE TRUE)
        /\ x \notin cleared \cup target => Edited(q, x) = x
  BY <1>2, <1>3, <1>4, <1>6 DEF Edited
<1>8. cleared \subseteq members /\ target \subseteq members
  BY <1>3, <1>4
<1>9. \A m \in members' : \E x \in members : m = Edited(q, x)
  <2> SUFFICES ASSUME NEW m \in members' PROVE \E x \in members : m = Edited(q, x)
    OBVIOUS
  <2>1. CASE m \in members \ (cleared \cup target)
    BY <1>7, <2>1
  <2>2. CASE \E x \in cleared : m = Rewritten(x, x.role, FALSE)
    BY <1>7, <1>8, <2>2
  <2>3. CASE \E x \in target : m = Rewritten(x, IF q.row.role = "ADMIN" THEN x.role ELSE "ADMIN",
                                         IF q.row.owner THEN x.owner ELSE TRUE)
    BY <1>7, <1>8, <2>3
  <2> QED
    BY <1>5, <2>1, <2>2, <2>3
<1>10. \A x \in members : Edited(q, x) \in members'
  <2> SUFFICES ASSUME NEW x \in members PROVE Edited(q, x) \in members'
    OBVIOUS
  <2>1. CASE x \in cleared
    BY <1>5, <1>7, <2>1
  <2>2. CASE x \in target
    BY <1>5, <1>7, <2>2
  <2>3. CASE x \notin cleared \cup target
    BY <1>5, <1>7, <2>3
  <2> QED
    BY <2>1, <2>2, <2>3
<1> QED
  BY <1>1, <1>9, <1>10

LEMMA EditedTypes ==
    ASSUME TypeInv, NEW r \in Requests, ChangeRole(r) \/ TransferOwnership(r)
    PROVE  TypeInv'
<1>1. PICK q \in Reads : q = request[r]
  BY DEF TypeInv
<1>2. q.op = "role" \/ q.op = "transfer"
  BY <1>1 DEF ChangeRole, TransferOwnership
<1>3. members' = {Edited(q, x) : x \in members}
  BY <1>1, ChangeRoleRows, TransferRows
<1>4. UNCHANGED <<account, team, invites, calls>> /\ request' = [request EXCEPT ![r] = Idle]
  BY DEF ChangeRole, TransferOwnership, Done
<1>5. TypeOK
  BY DEF TypeInv
<1>6. \A x \in members : Edited(q, x) \in Member /\ Same(Edited(q, x), x)
  BY <1>2, <1>5, EditedType DEF TypeOK
<1>7. Versions
  <2>1. members' \subseteq Member /\ \A m \in members' : \E x \in members : Same(m, x)
    BY <1>3, <1>6
  <2>2. ASSUME NEW m \in members', NEW n \in members', Same(m, n)
        PROVE  m = n
    <3>1. PICK x \in members, y \in members : m = Edited(q, x) /\ n = Edited(q, y)
      BY <1>3
    <3>2. x = y
      BY <1>5, <1>6, <2>2, <3>1 DEF Same, TypeOK
    <3> QED
      BY <3>1, <3>2
  <2>3. \A x \in members' \cup invites' : team'[x.team] = "live" /\ Live(x.user)'
    BY <1>4, <1>5, <2>1 DEF TypeOK, Same, Live
  <2>4. \A i \in invites' :
           \E x \in invites : x.made = i.made /\ x.team = i.team /\ x.user = i.user
    BY <1>4
  <2>5. /\ account' \in [Users -> {"none", "provisioned", "active", "deleted"}]
        /\ team' \in [TeamIds -> {"none", "live", "deleted"}]
        /\ invites' \subseteq Invite
    BY <1>4, <1>5 DEF TypeOK
  <2> QED
    BY <2>1, <2>2, <2>3, <2>4, <2>5 DEF Versions
<1>8. Standing
  BY <1>4 DEF Standing
<1> QED
  BY <1>4, <1>7, <1>8, VersionsStep
-----------------------------------------------------------------------------
(* Removals *)

LEMMA PurgeStep ==
    ASSUME TypeInv, NEW users, users \subseteq Users, NEW doomed, Purge(users, doomed),
           \A v \in users : Live(v),
           team' \in [TeamIds -> {"none", "live", "deleted"}],
           \A s \in TeamIds : team[s] # "none" => team'[s] # "none",
           invites' \subseteq {i \in invites : i.user \notin users},
           \A x \in members' \cup invites' : team'[x.team] = "live",
           UNCHANGED calls \/ Call,
           UNCHANGED request \/ \E r \in Requests : request' = [request EXCEPT ![r] = Idle]
    PROVE  TypeInv'
<1>1. TypeOK
  BY DEF TypeInv
<1>2. /\ account' = [u \in Users |-> IF u \in users THEN "deleted" ELSE account[u]]
      /\ \A m \in members' : m \in members /\ m.user \notin users
  BY DEF Purge
<1>3. account' \in [Users -> {"none", "provisioned", "active", "deleted"}]
  BY <1>1, <1>2 DEF TypeOK
<1>4. \A x \in members \cup invites : x.user \in Users
  BY <1>1 DEF TypeOK, Member, Invite
<1>5. \A x \in members' \cup invites' : Live(x.user)'
  <2> SUFFICES ASSUME NEW x \in members' \cup invites' PROVE Live(x.user)'
    OBVIOUS
  <2>1. x \in members \cup invites /\ x.user \notin users /\ x.user \in Users
    BY <1>2, <1>4
  <2>2. account'[x.user] = account[x.user]
    BY <1>2, <2>1
  <2>3. Live(x.user)
    BY <1>1, <2>1 DEF TypeOK
  <2> QED
    BY <2>2, <2>3 DEF Live
<1>6. \A m, n \in members' : Same(m, n) => m = n
  BY <1>1, <1>2 DEF TypeOK, Same
<1>7. Versions
  BY <1>1, <1>2, <1>3, <1>5, <1>6 DEF Versions, TypeOK, Same
<1>8. Standing
  BY <1>2 DEF Standing
<1> QED
  BY <1>7, <1>8, VersionsStep

\* The accounts a request purges, and the rows it takes.
LEMMA PurgedTypes ==
    ASSUME TypeInv, NEW r \in Requests, HasCounted(request[r])
    PROVE  /\ PurgeOf(request[r]) \subseteq Users
           /\ \A v \in PurgeOf(request[r]) : Live(v)
           /\ Doomed(request[r]) = {m \in members : Dooms(request[r], m)}
<1>1. PICK q \in Reads : q = request[r]
  BY DEF TypeInv
<1>2. q.orphans \subseteq Users
  BY <1>1, CountedShape DEF HasCounted
<1>3. Doomed(q) = {m \in members : Dooms(q, m)}
  BY <1>1 DEF HasCounted, Counted, Doomed, Dooms, Now, Same
<1> QED
  BY <1>1, <1>2, <1>3 DEF PurgeOf

LEMMA RemoveMemberTypes ==
    ASSUME TypeInv, NEW r \in Requests, RemoveMember(r)
    PROVE  TypeInv'
<1>1. PICK users : users = PurgeOf(request[r])
  OBVIOUS
<1>2. PICK doomed : doomed = Doomed(request[r])
  OBVIOUS
<1>3. /\ Purge(users, doomed) /\ invites' = {i \in invites : i.user \notin users}
      /\ UNCHANGED <<team, calls>> /\ request' = [request EXCEPT ![r] = Idle]
  BY <1>1, <1>2 DEF RemoveMember, Done
<1>4. users \subseteq Users /\ \A v \in users : Live(v)
  BY <1>1, PurgedTypes DEF RemoveMember, HasCounted, Counted
<1>5. TypeOK
  BY DEF TypeInv
<1>6. \A x \in members' \cup invites' : team'[x.team] = "live"
  BY <1>3, <1>5 DEF TypeOK, Purge
<1> QED
  BY <1>3, <1>4, <1>5, <1>6, PurgeStep DEF TypeOK

LEMMA DeleteTeamTypes ==
    ASSUME TypeInv, NEW r \in Requests, DeleteTeam(r)
    PROVE  TypeInv'
<1>1. PICK users : users = PurgeOf(request[r])
  OBVIOUS
<1>2. PICK doomed : doomed = Doomed(request[r])
  OBVIOUS
<1>3. PICK t : t = request[r].team
  OBVIOUS
<1>4. /\ Purge(users, doomed)
      /\ invites' = {i \in invites : i.user \notin users /\ i.team # t}
      /\ team[t] = "live" /\ team' = [team EXCEPT ![t] = "deleted"]
      /\ UNCHANGED calls /\ request' = [request EXCEPT ![r] = Idle]
  BY <1>1, <1>2, <1>3 DEF DeleteTeam, Done
<1>5. users \subseteq Users /\ \A v \in users : Live(v)
  BY <1>1, PurgedTypes DEF DeleteTeam, HasCounted, Counted
<1>6. TypeOK
  BY DEF TypeInv
<1>7. doomed = {m \in members : m.team = t}
  BY <1>2, <1>3 DEF DeleteTeam, Doomed
<1>8. \A x \in members' \cup invites' :
         x \in members \cup invites /\ x.team # t
  BY <1>4, <1>7 DEF Purge
<1>9. \A x \in members' \cup invites' : team'[x.team] = "live"
  BY <1>4, <1>6, <1>8 DEF TypeOK, Member, Invite
<1>10. /\ team' \in [TeamIds -> {"none", "live", "deleted"}]
       /\ \A s \in TeamIds : team[s] # "none" => team'[s] # "none"
  BY <1>4, <1>6 DEF TypeOK
<1>11. invites' \subseteq {i \in invites : i.user \notin users}
  BY <1>4
<1> QED
  BY <1>4, <1>5, <1>9, <1>10, <1>11, PurgeStep

LEMMA RemoveAccountTypes ==
    ASSUME TypeInv, NEW u \in Users, RemoveAccount(u)
    PROVE  TypeInv'
<1>1. TypeOK
  BY DEF TypeInv
<1>2. PICK users : users = {u}
  OBVIOUS
<1>3. /\ Purge(users, {}) /\ invites' = {i \in invites : i.user \notin users}
      /\ UNCHANGED <<team, request>> /\ Call /\ Live(u)
  BY <1>2 DEF RemoveAccount
<1>4. users \subseteq Users /\ \A v \in users : Live(v)
  BY <1>2, <1>3
<1>5. \A x \in members' \cup invites' : team'[x.team] = "live"
  BY <1>1, <1>3 DEF TypeOK, Purge
<1>6. /\ team' \in [TeamIds -> {"none", "live", "deleted"}]
      /\ \A s \in TeamIds : team[s] # "none" => team'[s] # "none"
      /\ invites' \subseteq {i \in invites : i.user \notin users}
      /\ UNCHANGED request /\ Call
  BY <1>1, <1>3 DEF TypeOK
<1> QED
  BY <1>3, <1>4, <1>5, <1>6, PurgeStep
-----------------------------------------------------------------------------
(* Reading *)

LEMMA BeginChangeRoleTypes ==
    ASSUME TypeInv, NEW r \in Requests, NEW t \in TeamIds, NEW u \in Users, NEW role \in Roles,
           BeginChangeRole(r, t, u, role)
    PROVE  TypeInv'
<1>1. PICK m \in members : m = RowOf(t, u) /\ m.team = t /\ m.user = u
  BY RowOfType DEF BeginChangeRole
<1>2. m \in Member /\ team[t] = "live"
  BY <1>1 DEF TypeInv, TypeOK
<1>3. PICK read \in Reads : read = [op |-> "role", team |-> t, row |-> m, role |-> role]
  BY <1>2 DEF Reads
<1>4. ReadInv(read) /\ Held(read) = {m} /\ read.op = "role"
  BY <1>1, <1>2, <1>3 DEF ReadInv, Held, Counted, OwnershipOps
<1>5. Call /\ request' = [request EXCEPT ![r] = read] /\ UNCHANGED tables
  BY <1>1, <1>3 DEF BeginChangeRole, Begin
<1> QED
  BY <1>4, <1>5, ReadStep DEF Taken

LEMMA BeginTransferTypes ==
    ASSUME TypeInv, NEW r \in Requests, NEW t \in TeamIds, NEW u \in Users,
           BeginTransfer(r, t, u)
    PROVE  TypeInv'
<1>1. PICK m \in members : m = RowOf(t, u) /\ m.team = t /\ m.user = u
  BY RowOfType DEF BeginTransfer
<1>2. m \in Member /\ team[t] = "live"
  BY <1>1 DEF TypeInv, TypeOK
<1>3. PICK read \in Reads : read = [op |-> "transfer", team |-> t, row |-> m]
  BY <1>2 DEF Reads
<1>4. ReadInv(read) /\ Held(read) = {m} /\ read.op = "transfer"
  BY <1>1, <1>2, <1>3 DEF ReadInv, Held, Counted, OwnershipOps
<1>5. Call /\ request' = [request EXCEPT ![r] = read] /\ UNCHANGED tables
  BY <1>1, <1>3 DEF BeginTransfer, Begin
<1> QED
  BY <1>4, <1>5, ReadStep DEF Taken

LEMMA ScanOwnersTypes ==
    ASSUME TypeInv, NEW r \in Requests, ScanOwners(r)
    PROVE  TypeInv'
<1>1. PICK q \in Reads : q = request[r]
  BY DEF TypeInv
<1>2. PICK others : others = OthersOwning(q)
  OBVIOUS
<1>3. q.op = "transfer" /\ "others" \notin DOMAIN q /\ q.team \in TeamIds /\ q.row \in Member
  BY <1>1, ReadShape DEF ScanOwners, OwnershipOps
<1>4. others \subseteq members /\ members \subseteq Member
      /\ \A x \in others : x.team = q.team /\ ~Same(x, q.row)
  BY <1>2 DEF OthersOwning, Owners, Now, Same, TypeInv, TypeOK
<1>5. PICK read \in Reads :
         read = [op |-> "transfer", team |-> q.team, row |-> q.row, others |-> others]
  BY <1>3, <1>4 DEF Reads
<1>6. ReadInv(q)
  BY <1>1 DEF TypeInv
<1>7. ReadInv(read) /\ Held(read) = {q.row} \cup others /\ read.op = "transfer"
  BY <1>3, <1>4, <1>5, <1>6 DEF ReadInv, Held, Counted, OwnershipOps
<1>8. q.row \in Held(q)
  BY <1>3 DEF Held
<1>9. \A x \in Held(read) : Taken(x.made)
  BY <1>1, <1>4, <1>7, <1>8 DEF Taken
<1>10. UNCHANGED <<tables, calls>> /\ request' = [request EXCEPT ![r] = read]
  BY <1>1, <1>2, <1>5 DEF ScanOwners, Continue
<1> QED
  BY <1>7, <1>9, <1>10, ReadStep

LEMMA BeginRemoveTypes ==
    ASSUME TypeInv, NEW r \in Requests, NEW t \in TeamIds, NEW u \in Users, NEW panel \in BOOLEAN,
           BeginRemove(r, t, u, panel)
    PROVE  TypeInv'
<1>1. PICK m \in members : m = RowOf(t, u) /\ m.team = t /\ m.user = u
  BY RowOfType DEF BeginRemove
<1>2. m \in Member /\ team[t] = "live" /\ account[u] # "none"
  BY <1>1 DEF TypeInv, TypeOK, Live
<1>3. PICK read \in Reads :
         read = [op |-> "remove", team |-> t, rows |-> {m}, users |-> {u}, panel |-> panel]
  BY <1>2 DEF Reads, Counted
<1>4. ReadInv(read) /\ Held(read) = {m} /\ read.op = "remove"
  BY <1>1, <1>2, <1>3 DEF ReadInv, Held, Counted, OwnershipOps
<1>5. Call /\ request' = [request EXCEPT ![r] = read] /\ UNCHANGED tables
  BY <1>1, <1>3 DEF BeginRemove, Begin
<1> QED
  BY <1>4, <1>5, ReadStep DEF Taken

LEMMA BeginDeleteTeamTypes ==
    ASSUME TypeInv, NEW r \in Requests, NEW t \in TeamIds, NEW users \in SUBSET Users,
           BeginDeleteTeam(r, t, users)
    PROVE  TypeInv'
<1>1. \A u \in users : account[u] # "none"
  BY DEF TypeInv, TypeOK, Live, Joined, BeginDeleteTeam
<1>2. PICK read \in Reads :
         read = [op |-> "delete", team |-> t, rows |-> {}, users |-> users, panel |-> FALSE]
  BY DEF Reads, Counted
<1>3. ReadInv(read) /\ Held(read) = {} /\ read.op = "delete"
  BY <1>1, <1>2 DEF ReadInv, Held, Counted, OwnershipOps
<1>4. Call /\ request' = [request EXCEPT ![r] = read] /\ UNCHANGED tables
  BY <1>2 DEF BeginDeleteTeam, Begin
<1> QED
  BY <1>3, <1>4, ReadStep

LEMMA CountMembershipsTypes ==
    ASSUME TypeInv, NEW r \in Requests, CountMemberships(r)
    PROVE  TypeInv'
<1>1. PICK q \in Reads : q = request[r]
  BY DEF TypeInv
<1>2. PICK orphans \in SUBSET Users : orphans = Orphans(q)
  BY <1>1, CountedShape DEF CountMemberships, Orphans
<1>3. /\ q.op \in Counted /\ q.team \in TeamIds /\ q.rows \subseteq Member
      /\ q.users \subseteq Users /\ q.panel \in BOOLEAN
  BY <1>1, CountedShape DEF CountMemberships
<1>4. PICK read \in Reads :
         read = [op |-> q.op, team |-> q.team, rows |-> q.rows, users |-> q.users,
                 panel |-> q.panel, orphans |-> orphans]
  BY <1>3 DEF Reads
<1>5. ReadInv(q)
  BY <1>1 DEF TypeInv
<1>6. ReadInv(read) /\ Held(read) = Held(q) /\ read.op \in Counted
  BY <1>3, <1>4, <1>5 DEF ReadInv, Held, Counted, OwnershipOps
<1>7. UNCHANGED <<tables, calls>> /\ request' = [request EXCEPT ![r] = read]
  BY <1>1, <1>2, <1>4 DEF CountMemberships, Continue
<1> QED
  BY <1>1, <1>6, <1>7, ReadStep DEF Taken, Counted

LEMMA BeginInviteTypes ==
    ASSUME TypeInv, NEW r \in Requests, NEW t \in TeamIds, NEW u \in Users, NEW role \in Roles,
           BeginInvite(r, t, u, role)
    PROVE  TypeInv'
<1>1. calls + 1 \in 1 .. MaxCalls
  BY FreshCall DEF BeginInvite, Begin
<1>2. PICK read \in Reads :
         read = [op |-> "invite", team |-> t, user |-> u, role |-> role, made |-> calls + 1]
  BY <1>1 DEF Reads
<1>3. ReadInv(read) /\ Held(read) = {} /\ read.op = "invite" /\ read.made = calls + 1
  BY <1>2 DEF ReadInv, Held, Counted, OwnershipOps
<1>4. Call /\ request' = [request EXCEPT ![r] = read] /\ UNCHANGED tables
  BY <1>2 DEF BeginInvite, Begin
<1> QED
  BY <1>3, <1>4, ReadStep

LEMMA BeginAcceptTypes ==
    ASSUME TypeInv, NEW r \in Requests, NEW i \in invites, BeginAccept(r, i)
    PROVE  TypeInv'
<1>1. calls + 1 \in 1 .. MaxCalls /\ i \in Invite
  BY FreshCall DEF BeginAccept, Begin, TypeInv, TypeOK
<1>2. PICK read \in Reads : read = [op |-> "accept", invite |-> i, made |-> calls + 1]
  BY <1>1 DEF Reads
<1>3. /\ ReadInv(read) /\ Held(read) = {} /\ read.op = "accept" /\ read.made = calls + 1
      /\ read.invite \in invites
  BY <1>2 DEF ReadInv, Held, Counted, OwnershipOps
<1>4. Call /\ request' = [request EXCEPT ![r] = read] /\ UNCHANGED tables
  BY <1>2 DEF BeginAccept, Begin
<1> QED
  BY <1>3, <1>4, ReadStep

LEMMA BeginSetPasswordTypes ==
    ASSUME TypeInv, NEW r \in Requests, NEW i \in invites, BeginSetPassword(r, i)
    PROVE  TypeInv'
<1>1. i \in Invite
  BY DEF TypeInv, TypeOK
<1>2. PICK read \in Reads : read = [op |-> "activate", invite |-> i]
  BY <1>1 DEF Reads
<1>3. ReadInv(read) /\ Held(read) = {} /\ read.op = "activate" /\ read.invite \in invites
  BY <1>2 DEF ReadInv, Held, Counted, OwnershipOps
<1>4. Call /\ request' = [request EXCEPT ![r] = read] /\ UNCHANGED tables
  BY <1>2 DEF BeginSetPassword, Begin
<1> QED
  BY <1>3, <1>4, ReadStep
-----------------------------------------------------------------------------
(* Type correctness *)

LEMMA InitialRows ==
    ASSUME Init
    PROVE  /\ members \subseteq Member
           /\ \A m \in members : m.made = 0 /\ m.team \in DOMAIN Founder
           /\ \A m, n \in members : m.team = n.team /\ m.user = n.user => m = n
<1>1. ASSUME NEW m \in members
      PROVE  \/ \E t \in DOMAIN Founder : m = NewMember(0, t, Founder[t], "ADMIN", TRUE)
             \/ \E c \in Crew : m = NewMember(0, c[1], c[2], "MEMBER", FALSE)
  BY DEF Init
<1>2. \A t \in DOMAIN Founder : t \in TeamIds /\ Founder[t] \in Users
  BY TeamsAssumption
<1>3. \A c \in Crew : c[1] \in DOMAIN Founder /\ c[2] \in Users /\ c = <<c[1], c[2]>>
  BY TeamsAssumption
<1>4. 0 \in 0 .. MaxCalls
  BY TeamsAssumption
<1>5. ASSUME NEW m \in members
      PROVE  /\ m \in Member /\ m.made = 0 /\ m.team \in DOMAIN Founder
             /\ \/ m.user = Founder[m.team] /\ m.role = "ADMIN" /\ m.owner = TRUE
                \/ <<m.team, m.user>> \in Crew /\ m.role = "MEMBER" /\ m.owner = FALSE
  <2>1. CASE \E t \in DOMAIN Founder : m = NewMember(0, t, Founder[t], "ADMIN", TRUE)
    BY <1>2, <1>4, <2>1 DEF NewMember, Member, Roles
  <2>2. CASE \E c \in Crew : m = NewMember(0, c[1], c[2], "MEMBER", FALSE)
    BY <1>2, <1>3, <1>4, <2>2 DEF NewMember, Member, Roles
  <2> QED
    BY <1>1, <2>1, <2>2
<1>6. ASSUME NEW m \in members, NEW n \in members, m.team = n.team, m.user = n.user
      PROVE  m = n
  <2>1. m.role = n.role /\ m.owner = n.owner /\ m.made = n.made
    BY <1>5, <1>6, TeamsAssumption
  <2>2. m \in Member /\ n \in Member
    BY <1>5
  <2> QED
    BY <1>6, <2>1, <2>2 DEF Member
<1> QED
  BY <1>5, <1>6

LEMMA InitialTypes == Init => TypeInv
<1> SUFFICES ASSUME Init PROVE TypeInv
  OBVIOUS
<1> USE TeamsAssumption
<1>1. TypeOK
  <2>1. account \in [Users -> {"none", "provisioned", "active", "deleted"}]
        /\ team \in [TeamIds -> {"none", "live", "deleted"}] /\ invites \subseteq Invite
    BY DEF Init
  <2>2. \A x \in members : team[x.team] = "live" /\ Live(x.user)
    BY InitialRows DEF Init, Live, Member
  <2> QED
    BY <2>1, <2>2, InitialRows DEF TypeOK, Init
<1>2. request \in [Requests -> Reads] /\ \A r \in Requests : request[r] = Idle
  BY IdleHolds DEF Init
<1>3. \A r \in Requests : ReadInv(request[r])
  BY <1>2, IdleHolds DEF ReadInv, OwnershipOps, Counted
<1>4. Numbered
  <2>1. \A n : Taken(n) => n = 0
    BY <1>2, IdleHolds, InitialRows DEF Taken, Init
  <2> QED
    BY <1>2, <2>1, IdleHolds DEF Numbered, Init
<1> QED
  BY <1>1, <1>2, <1>3, <1>4 DEF TypeInv

LEMMA TypesStep == TypeInv /\ [Next]_vars => TypeInv'
<1> SUFFICES ASSUME TypeInv, [Next]_vars PROVE TypeInv'
  OBVIOUS
<1>1. CASE UNCHANGED vars
  <2>1. TypeOK'
    BY <1>1 DEF TypeInv, TypeOK, vars, Live
  <2>2. \A r \in Requests : ReadInv(request[r])'
    BY <1>1 DEF TypeInv, ReadInv, vars
  <2>3. Numbered'
    BY <1>1 DEF TypeInv, Numbered, Taken, vars
  <2> QED
    BY <1>1, <2>1, <2>2, <2>3 DEF TypeInv, vars
<1>2. CASE Memberships
  BY <1>2, CreateTeamTypes, AddMemberTypes, AdminAddMemberTypes, AdminInviteTypes,
     BeginChangeRoleTypes, BeginTransferTypes, BeginRemoveTypes, BeginDeleteTeamTypes,
     AccountTypes, RemoveAccountTypes, EditedTypes, ScanOwnersTypes, CountMembershipsTypes,
     RemoveMemberTypes, DeleteTeamTypes DEF Memberships
<1>3. CASE Invitations
  BY <1>3, BeginInviteTypes, InvitationTypes, BeginAcceptTypes, BeginSetPasswordTypes,
     AccountTypes, CreateInvitationTypes, AcceptInvitationTypes, SetPasswordTypes DEF Invitations
<1> QED
  BY <1>1, <1>2, <1>3, FailTypes DEF Next

LEMMA TypesInvariant == Spec => []TypeInv
  BY InitialTypes, TypesStep, PTL DEF Spec

\* Rows have their types, a user is in a team once and no row refers to a
\* team or an account that is gone, although handlers write rows they read
\* in an earlier statement.
THEOREM TypeCorrect == Spec => []TypeOK
<1>1. TypeInv => TypeOK
  BY DEF TypeInv
<1> QED
  BY <1>1, TypesInvariant, PTL
-----------------------------------------------------------------------------
(* Ownership: steps that leave the owners of a team alone *)

Quiet(t) ==
    /\ Owners(t)' = Owners(t)
    /\ \A m \in members' : m.team = t =>
          \/ m \in members
          \/ ~m.owner /\ \A p \in Requests : \A x \in Held(request[p]) : ~Same(m, x)
          \/ /\ ~m.owner /\ \E x \in members : Same(m, x) /\ ~x.owner
             /\ \E p \in Requests : request[p].op = "role" /\ request[p].team = t

\* A handler that goes on with what it had read of the team, or ends.
GoesOn(p) ==
    \/ request'[p] = request[p]
    \/ request'[p].op \notin OwnershipOps
    \/ /\ request'[p].op = "remove" /\ request[p].op = "remove"
       /\ request'[p].team = request[p].team /\ request'[p].rows = request[p].rows
       /\ request'[p].panel = request[p].panel

Narrows ==
    /\ contested \subseteq contested' /\ deposed \subseteq deposed'
    /\ \A t \in TeamIds : team'[t] = "live" => team[t] = "live"

LEMMA NarrowsRuled == Narrows => \A t \in Ruled' : t \in Ruled
  BY DEF Narrows, Ruled

LEMMA StillKept ==
    ASSUME TypeInv, OwnerInv, NEW p \in Requests, NEW q \in Reads, q = request[p],
           q.op \in OwnershipOps, q.team \in Ruled, Quiet(q.team)
    PROVE  KeepsOwner(q)'
<1>1. KeepsOwner(q) /\ ReadInv(q)
  BY DEF TypeInv, OwnerInv
<1>2. q.op = "role" => \A m \in members' : Same(m, q.row) => ~m.owner
  <2> SUFFICES ASSUME q.op = "role", NEW m \in members', Same(m, q.row) PROVE ~m.owner
    OBVIOUS
  <2>1. m.team = q.team /\ q.row \in Held(q)
    BY <1>1 DEF ReadInv, Same, Held
  <2> QED
    BY <1>1, <2>1 DEF KeepsOwner, Quiet
<1>3. q.op = "remove" /\ ~q.panel => \A m \in members', x \in q.rows : Same(m, x) => ~m.owner
  <2> SUFFICES ASSUME q.op = "remove", ~q.panel, NEW m \in members', NEW x \in q.rows, Same(m, x)
               PROVE  ~m.owner
    OBVIOUS
  <2>1. m.team = q.team /\ x \in Held(q)
    BY <1>1 DEF ReadInv, Same, Held, Counted
  <2> QED
    BY <1>1, <2>1 DEF KeepsOwner, Quiet
<1>4. q.op = "transfer" =>
          /\ \A m \in members' : Same(m, q.row) => m.owner = q.row.owner /\ m.role = q.row.role
          /\ q.row.owner => \A m \in Owners(q.team)' : Same(m, q.row)
          /\ "others" \in DOMAIN q =>
                \A m \in Owners(q.team)' : Same(m, q.row) \/ \E x \in q.others : Same(m, x)
  <2> SUFFICES ASSUME q.op = "transfer"
               PROVE  \A m \in members' :
                         Same(m, q.row) => m.owner = q.row.owner /\ m.role = q.row.role
    BY <1>1 DEF KeepsOwner, Quiet
  <2> SUFFICES ASSUME NEW m \in members', Same(m, q.row)
               PROVE  m.owner = q.row.owner /\ m.role = q.row.role
    OBVIOUS
  <2>1. m.team = q.team /\ q.row \in Held(q)
    BY <1>1 DEF ReadInv, Same, Held
  <2>2. ~\E o \in Requests : request[o].op = "role" /\ request[o].team = q.team
    BY DEF OwnerInv, Alone, OwnershipOps, Ruled
  <2>3. m \in members
    BY <2>1, <2>2 DEF Quiet
  <2> QED
    BY <1>1, <2>3 DEF KeepsOwner
<1> QED
  BY <1>2, <1>3, <1>4 DEF KeepsOwner

\* A team whose owner the step has set, with no handler left on it.
Settled(t) ==
    /\ \A p \in Requests : request'[p].op \in OwnershipOps => request'[p].team # t
    /\ \E m \in Owners(t)' : Owners(t)' = {m} /\ m.role = "ADMIN"

LEMMA OwnersStep ==
    ASSUME TypeInv, OwnerInv, contested \subseteq contested', request' \in [Requests -> Reads],
           \A t \in Ruled' : \/ t \in Ruled /\ Quiet(t)
                            \/ Settled(t),
           \A p \in Requests : GoesOn(p)
    PROVE  OwnerInv'
<1>1. Alone'
  BY DEF OwnerInv, Alone, GoesOn, OwnershipOps
<1>2. ASSUME NEW p \in Requests, request'[p].op \in OwnershipOps, request'[p].team \in Ruled'
      PROVE  KeepsOwner(request[p])'
  <2>1. PICK q \in Reads : q = request[p]
    BY DEF TypeInv
  <2>2. q.op \in OwnershipOps /\ q.team = request'[p].team
    BY <1>2, <2>1 DEF GoesOn, OwnershipOps
  <2>3. q.team \in Ruled /\ Quiet(q.team)
    BY <1>2, <2>2 DEF Settled
  <2>4. KeepsOwner(q)'
    BY <2>1, <2>2, <2>3, StillKept
  <2>5. CASE request'[p] = request[p]
    BY <2>1, <2>4, <2>5 DEF KeepsOwner
  <2>6. CASE request'[p] # request[p]
    BY <1>2, <2>1, <2>4, <2>6 DEF KeepsOwner, GoesOn
  <2> QED
    BY <2>5, <2>6
<1>3. ASSUME NEW t \in Ruled'
      PROVE  \E m \in Owners(t)' : Owners(t)' = {m} /\ m.role = "ADMIN"
  BY <1>3 DEF OwnerInv, Quiet, Settled
<1> QED
  BY <1>1, <1>2, <1>3 DEF OwnerInv

LEMMA QuietStep ==
    ASSUME TypeInv, OwnerInv, Narrows, request' \in [Requests -> Reads],
           \A t \in Ruled' : Quiet(t),
           \A p \in Requests : GoesOn(p)
    PROVE  OwnerInv'
  BY NarrowsRuled, OwnersStep DEF Narrows

LEMMA AddedQuiet ==
    ASSUME NEW new, NEW n, ~Taken(n), new.made = n, ~new.owner,
           members' = members \cup {new}
    PROVE  \A t \in TeamIds : Quiet(t)
  BY DEF Quiet, Owners, Taken, Same

LEMMA SameQuiet == members' = members => \A t \in TeamIds : Quiet(t)
  BY DEF Quiet, Owners

LEMMA UpdatedGoesOn ==
    ASSUME TypeInv, NEW r \in Requests, NEW read \in Reads,
           request' = [request EXCEPT ![r] = read], read.op \notin OwnershipOps
    PROVE  request' \in [Requests -> Reads] /\ \A p \in Requests : GoesOn(p)
  BY Updated DEF TypeInv, GoesOn

LEMMA SameGoesOn ==
    ASSUME TypeInv, UNCHANGED request
    PROVE  request' \in [Requests -> Reads] /\ \A p \in Requests : GoesOn(p)
  BY DEF TypeInv, GoesOn

LEMMA IdleGoesOn ==
    ASSUME TypeInv, NEW r \in Requests, Done(r)
    PROVE  request' \in [Requests -> Reads] /\ \A p \in Requests : GoesOn(p)
  BY IdleHolds, UpdatedGoesOn DEF OwnershipOps, Done
-----------------------------------------------------------------------------
(* Ownership, by action *)

LEMMA AddOwnership ==
    ASSUME TypeInv, OwnerInv, NEW t \in TeamIds, NEW u \in Users,
           AddMember(t, u) \/ \E role \in Roles : AdminAddMember(t, u, role) \/ AdminInvite(t, u, role)
    PROVE  OwnerInv'
<1>1. PICK role \in Roles : members' = members \cup {NewMember(calls + 1, t, u, role, FALSE)}
  BY DEF AddMember, AdminAddMember, AdminInvite, Roles
<1>2. Call /\ UNCHANGED <<team, request, contested, deposed>>
  BY DEF AddMember, AdminAddMember, AdminInvite, history
<1>3. PICK n : n = calls + 1
  OBVIOUS
<1>4. ~Taken(n)
  BY <1>2, <1>3, FreshCall DEF Taken
<1>5. PICK new : new = NewMember(n, t, u, role, FALSE)
  OBVIOUS
<1>6. members' = members \cup {new} /\ new.made = n /\ ~new.owner
  BY <1>1, <1>3, <1>5 DEF NewMember
<1>7. \A s \in TeamIds : Quiet(s)
  BY <1>4, <1>6, AddedQuiet
<1>8. Narrows
  BY <1>2 DEF Narrows
<1> QED
  BY <1>2, <1>7, <1>8, SameGoesOn, QuietStep DEF Ruled

LEMMA JoinOwnership ==
    ASSUME TypeInv, OwnerInv, NEW r \in Requests, CreateInvitation(r) \/ AcceptInvitation(r)
    PROVE  OwnerInv'
<1>1. PICK q \in Reads : q = request[r]
  BY DEF TypeInv
<1>2. /\ q.op \in {"invite", "accept"} /\ Done(r) /\ UNCHANGED <<team, contested, deposed>>
  BY <1>1 DEF CreateInvitation, AcceptInvitation, history
<1>3. PICK n : n = q.made
  OBVIOUS
<1>4. ~Taken(n)
  BY <1>1, <1>2, <1>3 DEF TypeInv, Numbered
<1>5. \/ members' = members
      \/ \E t, u, role : members' = members \cup {NewMember(n, t, u, role, FALSE)}
  BY <1>1, <1>3 DEF CreateInvitation, AcceptInvitation
<1>6. \A s \in TeamIds : Quiet(s)
  <2>1. CASE members' = members
    BY <2>1, SameQuiet
  <2>2. CASE \E t, u, role : members' = members \cup {NewMember(n, t, u, role, FALSE)}
    <3>1. PICK t, u, role : members' = members \cup {NewMember(n, t, u, role, FALSE)}
      BY <2>2
    <3>2. PICK new : new = NewMember(n, t, u, role, FALSE)
      OBVIOUS
    <3>3. members' = members \cup {new} /\ new.made = n /\ ~new.owner
      BY <3>1, <3>2 DEF NewMember
    <3> QED
      BY <1>4, <3>3, AddedQuiet
  <2> QED
    BY <1>5, <2>1, <2>2
<1>7. Narrows
  BY <1>2 DEF Narrows
<1> QED
  BY <1>2, <1>6, <1>7, IdleGoesOn, QuietStep DEF Ruled

\* Steps that write no member.
LEMMA OtherOwnership ==
    ASSUME TypeInv, OwnerInv, UNCHANGED <<team, members, contested, deposed>>,
           \/ UNCHANGED request
           \/ \E r \in Requests : Done(r)
           \/ \E r \in Requests : \E read \in Reads :
                 request' = [request EXCEPT ![r] = read] /\ read.op \notin OwnershipOps
    PROVE  OwnerInv'
<1>1. \A s \in TeamIds : Quiet(s)
  BY SameQuiet
<1>2. Narrows
  BY DEF Narrows
<1>3. request' \in [Requests -> Reads] /\ \A p \in Requests : GoesOn(p)
  BY SameGoesOn, IdleGoesOn, UpdatedGoesOn
<1> QED
  BY <1>1, <1>2, <1>3, QuietStep DEF Ruled

LEMMA InvitationOwnership ==
    ASSUME TypeInv, OwnerInv,
           \/ \E i \in invites : DeleteInvitation(i) \/ Expire(i) \/ MaybeClaimInvitation(i)
           \/ \E u \in Users : SignIn(u) \/ CreateUser(u)
           \/ \E r \in Requests : SetPassword(r) \/ Fail(r)
    PROVE  OwnerInv'
<1>1. UNCHANGED <<team, members, contested, deposed>>
  BY DEF DeleteInvitation, Expire, MaybeClaimInvitation, SignIn, CreateUser, SetPassword, Fail,
         tables, history
<1>2. UNCHANGED request \/ \E r \in Requests : Done(r)
  BY DEF DeleteInvitation, Expire, MaybeClaimInvitation, SignIn, CreateUser, SetPassword, Fail
<1> QED
  BY <1>1, <1>2, OtherOwnership

\* What the handlers read that write no member, or only when they delete.
LEMMA OtherReads ==
    ASSUME NEW r \in Requests,
           \/ \E t \in TeamIds, u \in Users, role \in Roles : BeginInvite(r, t, u, role)
           \/ \E i \in invites : BeginAccept(r, i) \/ BeginSetPassword(r, i)
           \/ \E t \in TeamIds, users \in SUBSET Users : BeginDeleteTeam(r, t, users)
    PROVE  \E read : /\ request' = [request EXCEPT ![r] = read]
                    /\ read.op \notin OwnershipOps /\ ~HasCounted(read)
<1>1. CASE \E t \in TeamIds, u \in Users, role \in Roles : BeginInvite(r, t, u, role)
  <2>1. PICK t \in TeamIds, u \in Users, role \in Roles : BeginInvite(r, t, u, role)
    BY <1>1
  <2>2. PICK read : read = [op |-> "invite", team |-> t, user |-> u, role |-> role, made |-> calls + 1]
    OBVIOUS
  <2>3. read.op \notin OwnershipOps /\ ~HasCounted(read)
    BY <2>2 DEF OwnershipOps, HasCounted
  <2>4. request' = [request EXCEPT ![r] = read]
    BY <2>1, <2>2 DEF BeginInvite, Begin
  <2> QED
    BY <2>3, <2>4
<1>2. CASE \E i \in invites : BeginAccept(r, i)
  <2>1. PICK i \in invites : BeginAccept(r, i)
    BY <1>2
  <2>2. PICK read : read = [op |-> "accept", invite |-> i, made |-> calls + 1]
    OBVIOUS
  <2>3. read.op \notin OwnershipOps /\ ~HasCounted(read)
    BY <2>2 DEF OwnershipOps, HasCounted
  <2>4. request' = [request EXCEPT ![r] = read]
    BY <2>1, <2>2 DEF BeginAccept, Begin
  <2> QED
    BY <2>3, <2>4
<1>3. CASE \E i \in invites : BeginSetPassword(r, i)
  <2>1. PICK i \in invites : BeginSetPassword(r, i)
    BY <1>3
  <2>2. PICK read : read = [op |-> "activate", invite |-> i]
    OBVIOUS
  <2>3. read.op \notin OwnershipOps /\ ~HasCounted(read)
    BY <2>2 DEF OwnershipOps, HasCounted
  <2>4. request' = [request EXCEPT ![r] = read]
    BY <2>1, <2>2 DEF BeginSetPassword, Begin
  <2> QED
    BY <2>3, <2>4
<1>4. CASE \E t \in TeamIds, users \in SUBSET Users : BeginDeleteTeam(r, t, users)
  <2>1. PICK t \in TeamIds, users \in SUBSET Users : BeginDeleteTeam(r, t, users)
    BY <1>4
  <2>2. PICK read :
           read = [op |-> "delete", team |-> t, rows |-> {}, users |-> users, panel |-> FALSE]
    OBVIOUS
  <2>3. read.op \notin OwnershipOps /\ ~HasCounted(read)
    BY <2>2 DEF OwnershipOps, HasCounted
  <2>4. request' = [request EXCEPT ![r] = read]
    BY <2>1, <2>2 DEF BeginDeleteTeam, Begin
  <2> QED
    BY <2>3, <2>4
<1> QED
  BY <1>1, <1>2, <1>3, <1>4

LEMMA BeginOwnership ==
    ASSUME TypeInv, OwnerInv, NEW r \in Requests,
           \/ \E t \in TeamIds, u \in Users, role \in Roles : BeginInvite(r, t, u, role)
           \/ \E i \in invites : BeginAccept(r, i) \/ BeginSetPassword(r, i)
           \/ \E t \in TeamIds, users \in SUBSET Users : BeginDeleteTeam(r, t, users)
    PROVE  OwnerInv'
<1>1. UNCHANGED <<team, members, contested, deposed>>
  BY DEF BeginInvite, BeginAccept, BeginSetPassword, BeginDeleteTeam, Begin, tables, history
<1>2. \E read : request' = [request EXCEPT ![r] = read] /\ read.op \notin OwnershipOps
  BY OtherReads
<1>3. TypeInv'
  BY BeginInviteTypes, BeginAcceptTypes, BeginSetPasswordTypes, BeginDeleteTeamTypes
<1>4. \E read \in Reads : request' = [request EXCEPT ![r] = read] /\ read.op \notin OwnershipOps
  <2>1. PICK read : request' = [request EXCEPT ![r] = read] /\ read.op \notin OwnershipOps
    BY <1>2
  <2>2. request'[r] = read
    BY <2>1 DEF TypeInv
  <2>3. read \in Reads
    BY <1>3, <2>2 DEF TypeInv
  <2> QED
    BY <2>1, <2>3
<1> QED
  BY <1>1, <1>4, OtherOwnership

LEMMA CountOwnership ==
    ASSUME TypeInv, OwnerInv, NEW r \in Requests, CountMemberships(r)
    PROVE  OwnerInv'
<1>1. PICK q : q = request[r]
  OBVIOUS
<1>2. PICK read : read = [op |-> q.op, team |-> q.team, rows |-> q.rows, users |-> q.users,
                          panel |-> q.panel, orphans |-> Orphans(q)]
  OBVIOUS
<1>3. /\ request' = [request EXCEPT ![r] = read] /\ q.op \in Counted
      /\ UNCHANGED <<team, members, contested, deposed>>
  BY <1>1, <1>2 DEF CountMemberships, Continue, tables
<1>4. /\ request'[r] = read
      /\ \A p \in Requests \ {r} : request'[p] = request[p]
  BY <1>3 DEF TypeInv
<1>5. request' \in [Requests -> Reads]
  BY CountMembershipsTypes DEF TypeInv
<1>6. \A p \in Requests : GoesOn(p)
  BY <1>1, <1>2, <1>3, <1>4 DEF GoesOn, Counted, OwnershipOps
<1>7. Narrows /\ \A s \in TeamIds : Quiet(s)
  BY <1>3, SameQuiet DEF Narrows
<1> QED
  BY <1>5, <1>6, <1>7, QuietStep DEF Ruled
\* Removals take the owner of a team only where the history says so.
LEMMA DroppedQuiet ==
    ASSUME NEW t \in TeamIds, members' \subseteq members,
           \A m \in members : m.team = t /\ m.owner => m \in members'
    PROVE  Quiet(t)
  BY DEF Quiet, Owners

LEMMA RemoveMemberOwnership ==
    ASSUME TypeInv, OwnerInv, NEW r \in Requests, RemoveMember(r)
    PROVE  OwnerInv'
<1>1. PICK q \in Reads : q = request[r]
  BY DEF TypeInv
<1>2. PICK purged : purged = PurgeOf(q)
  OBVIOUS
<1>3. PICK doomed : doomed = Doomed(q)
  OBVIOUS
<1>4. /\ q.op = "remove" /\ Purge(purged, doomed) /\ Done(r) /\ UNCHANGED <<team, contested>>
      /\ deposed' = deposed \cup {m.team : m \in {x \in members : x.owner /\
                      \/ x \in doomed /\ q.panel
                      \/ x \notin doomed /\ x.user \in purged}}
  BY <1>1, <1>2, <1>3 DEF RemoveMember
<1>5. Narrows
  BY <1>4 DEF Narrows
<1>6. members' = {m \in members : m \notin doomed /\ m.user \notin purged}
  BY <1>4 DEF Purge
<1>7. ASSUME NEW t \in Ruled', NEW m \in members, m.team = t, m.owner
      PROVE  m \in members'
  <2>1. t \notin deposed' /\ t \in Ruled
    BY <1>5, NarrowsRuled DEF Ruled
  <2>2. m \notin doomed
    <3> SUFFICES ASSUME m \in doomed PROVE FALSE
      OBVIOUS
    <3>1. ~q.panel
      BY <1>4, <1>7, <2>1
    <3>2. PICK x \in q.rows : Same(m, x)
      BY <1>3, <1>4 DEF Doomed, Now, Same
    <3>3. x.team = q.team
      BY <1>1, <1>4 DEF TypeInv, ReadInv, Counted
    <3>4. q.team = t
      BY <1>7, <3>2, <3>3 DEF Same
    <3>5. KeepsOwner(q)
      BY <1>1, <1>4, <2>1, <3>4 DEF OwnerInv, OwnershipOps
    <3> QED
      BY <1>4, <1>7, <3>1, <3>2, <3>5 DEF KeepsOwner
  <2>3. m.user \notin purged
    BY <1>4, <1>7, <2>1, <2>2
  <2> QED
    BY <1>6, <2>2, <2>3
<1>8. \A t \in Ruled' : Quiet(t)
  BY <1>6, <1>7, DroppedQuiet DEF Ruled
<1> QED
  BY <1>4, <1>5, <1>8, IdleGoesOn, QuietStep

LEMMA DeleteTeamOwnership ==
    ASSUME TypeInv, OwnerInv, NEW r \in Requests, DeleteTeam(r)
    PROVE  OwnerInv'
<1>1. PICK q \in Reads : q = request[r]
  BY DEF TypeInv
<1>2. PICK purged : purged = PurgeOf(q)
  OBVIOUS
<1>3. PICK doomed : doomed = Doomed(q)
  OBVIOUS
<1>4. /\ q.op = "delete" /\ Purge(purged, doomed) /\ Done(r) /\ UNCHANGED contested
      /\ team' = [team EXCEPT ![q.team] = "deleted"]
      /\ deposed' = deposed \cup
            {m.team : m \in {x \in members \ doomed : x.owner /\ x.user \in purged}}
  BY <1>1, <1>2, <1>3 DEF DeleteTeam
<1>5. q.team \in TeamIds /\ team \in [TeamIds -> {"none", "live", "deleted"}]
  BY <1>1, <1>4, CountedShape DEF TypeInv, TypeOK, Counted
<1>6. Narrows /\ q.team \notin Ruled'
  BY <1>4, <1>5 DEF Narrows, Ruled
<1>7. members' = {m \in members : m \notin doomed /\ m.user \notin purged}
  BY <1>4 DEF Purge
<1>8. doomed = {m \in members : m.team = q.team}
  BY <1>3, <1>4 DEF Doomed
<1>9. ASSUME NEW t \in Ruled', NEW m \in members, m.team = t, m.owner
      PROVE  m \in members'
  <2>1. m \notin doomed
    BY <1>6, <1>8, <1>9
  <2>2. m.user \notin purged
    BY <1>4, <1>9, <2>1 DEF Ruled
  <2> QED
    BY <1>7, <2>1, <2>2
<1>10. \A t \in Ruled' : Quiet(t)
  BY <1>7, <1>9, DroppedQuiet DEF Ruled
<1> QED
  BY <1>4, <1>6, <1>10, IdleGoesOn, QuietStep

LEMMA RemoveAccountOwnership ==
    ASSUME TypeInv, OwnerInv, NEW u \in Users, RemoveAccount(u)
    PROVE  OwnerInv'
<1>1. /\ members' = {m \in members : m.user # u}
      /\ UNCHANGED <<team, request, contested>>
      /\ deposed' = deposed \cup {m.team : m \in {x \in members : x.owner /\ x.user = u}}
  BY DEF RemoveAccount, Purge
<1>2. Narrows
  BY <1>1 DEF Narrows
<1>3. \A t \in Ruled' : \A m \in members : m.team = t /\ m.owner => m \in members'
  BY <1>1 DEF Ruled
<1>4. \A t \in Ruled' : Quiet(t)
  BY <1>1, <1>3, DroppedQuiet DEF Ruled
<1> QED
  BY <1>1, <1>2, <1>4, SameGoesOn, QuietStep

\* A change of role does not have the owner's row.
LEMMA ChangeRoleOwnership ==
    ASSUME TypeInv, OwnerInv, NEW r \in Requests, ChangeRole(r)
    PROVE  OwnerInv'
<1>1. PICK q \in Reads : q = request[r]
  BY DEF TypeInv
<1>2. /\ q.op = "role" /\ members' = {Edited(q, x) : x \in members}
      /\ Done(r) /\ UNCHANGED <<team, contested, deposed>>
  BY <1>1, ChangeRoleRows DEF ChangeRole, history
<1>3. Narrows
  BY <1>2 DEF Narrows
<1>4. q.row.team = q.team
  BY <1>1, <1>2 DEF TypeInv, ReadInv
<1>5. \A x \in members :
         \/ Edited(q, x) = x
         \/ /\ Same(x, q.row) /\ Same(Edited(q, x), x) /\ Edited(q, x).owner = x.owner
  BY <1>2 DEF Edited, Rewritten, NewMember, Same
<1>6. ASSUME NEW t \in Ruled'
      PROVE  Quiet(t)
  <2>1. t \in Ruled
    BY <1>3, NarrowsRuled
  <2>2. \A x \in members : x.team = t /\ Same(x, q.row) => ~x.owner /\ q.team = t
    BY <1>1, <1>2, <1>4, <2>1 DEF OwnerInv, OwnershipOps, KeepsOwner, Same
  <2>3. \A x \in members : x.team = t =>
           \/ Edited(q, x) = x
           \/ /\ Same(Edited(q, x), x) /\ ~x.owner /\ ~Edited(q, x).owner /\ q.team = t
    BY <1>5, <2>2
  <2>4. \A x \in members : Edited(q, x).team = x.team
    BY <1>5 DEF Same
  <2>5. Owners(t)' = Owners(t)
    BY <1>2, <2>3, <2>4 DEF Owners
  <2>6. \A m \in members' : m.team = t =>
           \/ m \in members
           \/ ~m.owner /\ (\E x \in members : Same(m, x) /\ ~x.owner) /\ q.team = t
    BY <1>2, <2>3, <2>4
  <2> QED
    BY <1>1, <1>2, <2>5, <2>6 DEF Quiet
<1> QED
  BY <1>2, <1>3, <1>6, IdleGoesOn, QuietStep
LEMMA CreateTeamOwnership ==
    ASSUME TypeInv, OwnerInv, NEW t \in TeamIds, NEW u \in Users, CreateTeam(t, u)
    PROVE  OwnerInv'
<1>1. PICK new : new = NewMember(calls + 1, t, u, "ADMIN", TRUE)
  OBVIOUS
<1>2. new.team = t /\ new.owner /\ new.role = "ADMIN" /\ members' = members \cup {new}
  BY <1>1 DEF CreateTeam, NewMember
<1>3. /\ UNCHANGED <<request, contested, deposed>>
      /\ team[t] = "none" /\ team' = [team EXCEPT ![t] = "live"]
  BY DEF CreateTeam, history
<1>4. \A m \in members : m.team # t
  BY <1>3 DEF TypeInv, TypeOK
<1>5. Settled(t)
  <2>1. \A p \in Requests : request'[p].op \in OwnershipOps => request'[p].team # t
    BY <1>3 DEF TypeInv, ReadInv
  <2>2. Owners(t)' = {new}
    BY <1>2, <1>4 DEF Owners
  <2> QED
    BY <1>2, <2>1, <2>2 DEF Settled
<1>6. ASSUME NEW s \in Ruled', s # t
      PROVE  s \in Ruled /\ Quiet(s)
  BY <1>2, <1>3, <1>6 DEF Ruled, Quiet, Owners, TypeInv, TypeOK
<1>7. contested \subseteq contested'
  BY <1>3
<1> QED
  BY <1>3, <1>5, <1>6, <1>7, SameGoesOn, OwnersStep

\* A handler begins: a transfer of the team that another handler works on,
\* or that another begins beside, is contested.
LEMMA AskedOwnership ==
    ASSUME TypeInv, OwnerInv, NEW r \in Requests, NEW read \in Reads, NEW t, NEW op,
           read.op = op, read.team = t, op \in OwnershipOps,
           request' = [request EXCEPT ![r] = read], UNCHANGED <<members, team, deposed>>,
           Contest(r, t, op),
           t \in Ruled => KeepsOwner(read)
    PROVE  OwnerInv'
<1>1. /\ request'[r] = read
      /\ \A p \in Requests \ {r} : request'[p] = request[p]
  BY Updated DEF TypeInv
<1>2. /\ contested \subseteq contested'
      /\ \A p \in Requests \ {r} :
            /\ request[p].op \in OwnershipOps /\ request[p].team = t
            /\ op = "transfer" \/ request[p].op = "transfer"
            => t \in contested'
  BY DEF Contest
<1>3. Alone'
  <2> SUFFICES ASSUME NEW o \in Requests, NEW p \in Requests, o # p,
                      request'[o].op = "transfer", request'[p].op \in OwnershipOps,
                      request'[p].team = request'[o].team
               PROVE  request'[o].team \in contested'
    BY DEF Alone
  <2>1. CASE o = r
    BY <1>1, <1>2, <2>1
  <2>2. CASE p = r
    BY <1>1, <1>2, <2>2 DEF OwnershipOps
  <2>3. CASE o # r /\ p # r
    BY <1>1, <1>2, <2>3 DEF OwnerInv, Alone
  <2> QED
    BY <2>1, <2>2, <2>3
<1>4. \A s \in Ruled' : s \in Ruled /\ Owners(s)' = Owners(s)
  BY <1>2 DEF Ruled, Owners
<1>5. ASSUME NEW p \in Requests, request'[p].op \in OwnershipOps, request'[p].team \in Ruled'
      PROVE  KeepsOwner(request[p])'
  <2>1. KeepsOwner(request'[p])
    BY <1>1, <1>4, <1>5 DEF OwnerInv
  <2> QED
    BY <2>1 DEF KeepsOwner, Owners
<1> QED
  BY <1>3, <1>4, <1>5 DEF OwnerInv

LEMMA OneRow ==
    ASSUME TypeInv, NEW m \in members
    PROVE  \A x \in members : Same(x, m) => x = m
  BY DEF TypeInv, TypeOK, Same

LEMMA BeginChangeRoleOwnership ==
    ASSUME TypeInv, OwnerInv, NEW r \in Requests, NEW t \in TeamIds, NEW u \in Users,
           NEW role \in Roles, BeginChangeRole(r, t, u, role)
    PROVE  OwnerInv'
<1>1. PICK m \in members : m = RowOf(t, u)
  BY RowOfType DEF BeginChangeRole
<1>2. PICK read : read = [op |-> "role", team |-> t, row |-> m, role |-> role]
  OBVIOUS
<1>3. /\ request' = [request EXCEPT ![r] = read] /\ Contest(r, t, "role")
      /\ UNCHANGED <<members, team, deposed>> /\ ~m.owner
  BY <1>1, <1>2 DEF BeginChangeRole, Begin, tables
<1>4. read \in Reads
  BY <1>2 DEF Reads, TypeInv, TypeOK
<1>5. KeepsOwner(read)
  BY <1>2, <1>3, OneRow DEF KeepsOwner
<1>6. read.op = "role" /\ read.team = t /\ "role" \in OwnershipOps
  BY <1>2 DEF OwnershipOps
<1> QED
  BY <1>3, <1>4, <1>5, <1>6, AskedOwnership

LEMMA BeginTransferOwnership ==
    ASSUME TypeInv, OwnerInv, NEW r \in Requests, NEW t \in TeamIds, NEW u \in Users,
           BeginTransfer(r, t, u)
    PROVE  OwnerInv'
<1>1. PICK m \in members : m = RowOf(t, u) /\ m.team = t
  BY RowOfType DEF BeginTransfer
<1>2. PICK read : read = [op |-> "transfer", team |-> t, row |-> m]
  OBVIOUS
<1>3. /\ request' = [request EXCEPT ![r] = read] /\ Contest(r, t, "transfer")
      /\ UNCHANGED <<members, team, deposed>>
  BY <1>1, <1>2 DEF BeginTransfer, Begin, tables
<1>4. read \in Reads
  BY <1>2 DEF Reads, TypeInv, TypeOK
<1>5. ASSUME t \in Ruled
      PROVE  KeepsOwner(read)
  <2>1. \A x \in members : Same(x, m) => x = m
    BY OneRow
  <2>2. m.owner => \A x \in Owners(t) : x = m
    BY <1>1, <1>5 DEF OwnerInv, Owners
  <2>3. m.owner => \A x \in Owners(t) : Same(x, m)
    BY <2>2 DEF Same
  <2>4. "others" \notin DOMAIN read
    BY <1>2
  <2> QED
    BY <1>2, <2>1, <2>3, <2>4 DEF KeepsOwner
<1>6. read.op = "transfer" /\ read.team = t /\ "transfer" \in OwnershipOps
  BY <1>2 DEF OwnershipOps
<1> QED
  BY <1>3, <1>4, <1>5, <1>6, AskedOwnership

LEMMA BeginRemoveOwnership ==
    ASSUME TypeInv, OwnerInv, NEW r \in Requests, NEW t \in TeamIds, NEW u \in Users,
           NEW panel \in BOOLEAN, BeginRemove(r, t, u, panel)
    PROVE  OwnerInv'
<1>1. PICK m \in members : m = RowOf(t, u)
  BY RowOfType DEF BeginRemove
<1>2. PICK read :
         read = [op |-> "remove", team |-> t, rows |-> {m}, users |-> {u}, panel |-> panel]
  OBVIOUS
<1>3. /\ request' = [request EXCEPT ![r] = read] /\ Contest(r, t, "remove")
      /\ UNCHANGED <<members, team, deposed>> /\ (panel \/ ~m.owner)
  BY <1>1, <1>2 DEF BeginRemove, Begin, tables
<1>4. read \in Reads
  BY <1>2 DEF Reads, Counted, TypeInv, TypeOK
<1>5. KeepsOwner(read)
  BY <1>2, <1>3, OneRow DEF KeepsOwner
<1>6. read.op = "remove" /\ read.team = t /\ "remove" \in OwnershipOps
  BY <1>2 DEF OwnershipOps
<1> QED
  BY <1>3, <1>4, <1>5, <1>6, AskedOwnership
\* The scan sees every owner of the team, so a transfer has the row of each.
LEMMA ScanOwnership ==
    ASSUME TypeInv, OwnerInv, NEW r \in Requests, ScanOwners(r)
    PROVE  OwnerInv'
<1>1. PICK q \in Reads : q = request[r]
  BY DEF TypeInv
<1>2. PICK others : others = OthersOwning(q)
  OBVIOUS
<1>3. PICK read : read = [op |-> "transfer", team |-> q.team, row |-> q.row, others |-> others]
  OBVIOUS
<1>4. /\ q.op = "transfer" /\ request' = [request EXCEPT ![r] = read]
      /\ UNCHANGED <<members, team, contested, deposed>>
  BY <1>1, <1>2, <1>3 DEF ScanOwners, Continue, tables, history
<1>5. /\ request'[r] = read
      /\ \A p \in Requests \ {r} : request'[p] = request[p]
  BY <1>4 DEF TypeInv
<1>6. Alone'
  <2> SUFFICES ASSUME NEW o \in Requests, NEW p \in Requests, o # p,
                      request'[o].op = "transfer", request'[p].op \in OwnershipOps,
                      request'[p].team = request'[o].team
               PROVE  request'[o].team \in contested
    BY <1>4 DEF Alone
  <2>1. request[o].op = "transfer" /\ request[o].team = request'[o].team
    BY <1>1, <1>3, <1>4, <1>5
  <2>2. request[p].op \in OwnershipOps /\ request[p].team = request'[p].team
    BY <1>1, <1>3, <1>4, <1>5 DEF OwnershipOps
  <2> QED
    BY <2>1, <2>2 DEF OwnerInv, Alone
<1>7. Ruled' = Ruled /\ \A s : Owners(s)' = Owners(s)
  BY <1>4 DEF Ruled, Owners
<1>8. ASSUME NEW p \in Requests, request'[p].op \in OwnershipOps, request'[p].team \in Ruled'
      PROVE  KeepsOwner(request[p])'
  <2>1. CASE p = r
    <3>1. KeepsOwner(q)
      BY <1>1, <1>3, <1>4, <1>5, <1>7, <1>8, <2>1 DEF OwnerInv, OwnershipOps
    <3>2. \A m \in Owners(q.team) : Same(m, q.row) \/ m \in others
      BY <1>2 DEF OthersOwning, Now, Same, Owners
    <3>3. \A m \in Owners(q.team) : Same(m, q.row) \/ \E x \in others : Same(m, x)
      BY <3>2 DEF Same
    <3>4. KeepsOwner(read)
      BY <1>3, <1>4, <3>1, <3>3 DEF KeepsOwner
    <3> QED
      BY <1>4, <1>5, <2>1, <3>4 DEF KeepsOwner, Owners
  <2>2. CASE p # r
    <3>1. KeepsOwner(request[p])
      BY <1>5, <1>7, <1>8, <2>2 DEF OwnerInv
    <3> QED
      BY <1>4, <1>5, <2>2, <3>1 DEF KeepsOwner, Owners
  <2> QED
    BY <2>1, <2>2
<1> QED
  BY <1>6, <1>7, <1>8 DEF OwnerInv

\* A transfer that has its team for itself leaves the row it read as the only
\* owner's: it knows every owner, and its own row is what it was.
LEMMA TransferSettles ==
    ASSUME TypeInv, OwnerInv, NEW r \in Requests, NEW q \in Reads, q = request[r],
           TransferOwnership(r), q.team \in Ruled
    PROVE  \E m \in Owners(q.team)' : Owners(q.team)' = {m} /\ m.role = "ADMIN"
<1>1. /\ q.op = "transfer" /\ "others" \in DOMAIN q
      /\ members' = {Edited(q, x) : x \in members}
      /\ ~q.row.owner \/ q.row.role # "ADMIN" => Now(q.row) # {}
  BY TransferRows DEF TransferOwnership
<1>2. KeepsOwner(q) /\ ReadInv(q)
  BY <1>1 DEF TypeInv, OwnerInv, OwnershipOps
<1>3. PICK o \in Owners(q.team) : Owners(q.team) = {o} /\ o.role = "ADMIN"
  BY DEF OwnerInv
<1>4. o \in members /\ o.owner /\ o.team = q.team
  BY <1>3 DEF Owners
<1>5. \A x \in members : Edited(q, x).team = x.team
  BY <1>1 DEF Edited, Rewritten, NewMember
<1>6. \A x \in members : Cleared(q, x) => ~Same(x, q.row)
  BY <1>1, <1>2 DEF ReadInv, Cleared, Same
<1>7. CASE q.row.owner
  <2>1. Same(o, q.row) /\ o.owner = q.row.owner /\ o.role = q.row.role
    BY <1>2, <1>4, <1>7, <1>1, <1>3 DEF KeepsOwner
  <2>2. Edited(q, o) = o
    BY <1>1, <1>3, <1>6, <1>4, <1>7, <2>1 DEF Edited, Promoted
  <2>3. \A x \in members : x.team = q.team /\ x # o => ~Edited(q, x).owner
    <3> SUFFICES ASSUME NEW x \in members, x.team = q.team, x # o PROVE ~Edited(q, x).owner
      OBVIOUS
    <3>1. ~x.owner
      BY <1>3 DEF Owners
    <3>2. ~Promoted(q, x)
      BY <1>3, <1>7, <2>1 DEF Promoted
    <3> QED
      BY <1>1, <3>1, <3>2 DEF Edited, Rewritten, NewMember
  <2>4. Owners(q.team)' = {o}
    BY <1>1, <1>4, <1>5, <2>2, <2>3 DEF Owners
  <2> QED
    BY <1>3, <2>4
<1>8. CASE ~q.row.owner
  <2>1. PICK x \in members : Same(x, q.row)
    BY <1>1, <1>8 DEF Now, Same
  <2>2. x.team = q.team /\ x.role = q.row.role /\ Promoted(q, x) /\ ~Cleared(q, x)
    BY <1>1, <1>2, <1>6, <1>8, <2>1 DEF ReadInv, KeepsOwner, Promoted, Same
  <2>3. PICK new : new = Edited(q, x)
    OBVIOUS
  <2>4. new.owner = TRUE /\ new.role = "ADMIN" /\ new.team = q.team
    BY <1>1, <1>8, <2>2, <2>3 DEF Edited, Rewritten, NewMember
  <2>5. \A y \in members : y.team = q.team /\ y # x => ~Edited(q, y).owner
    <3> SUFFICES ASSUME NEW y \in members, y.team = q.team, y # x PROVE ~Edited(q, y).owner
      OBVIOUS
    <3>1. ~Same(y, q.row)
      BY <2>1 DEF TypeInv, TypeOK, Same
    <3>2. y.owner => Cleared(q, y)
      BY <1>1, <1>2, <3>1 DEF KeepsOwner, Owners, Cleared
    <3>3. ~Promoted(q, y)
      BY <3>1 DEF Promoted
    <3> QED
      BY <1>1, <3>2, <3>3 DEF Edited, Rewritten, NewMember
  <2>6. Owners(q.team)' = {new}
    BY <1>1, <1>5, <2>3, <2>4, <2>5 DEF Owners
  <2> QED
    BY <2>4, <2>6
<1> QED
  BY <1>7, <1>8

LEMMA TransferOwnershipSettles ==
    ASSUME TypeInv, OwnerInv, NEW r \in Requests, TransferOwnership(r)
    PROVE  OwnerInv'
<1>1. PICK q \in Reads : q = request[r]
  BY DEF TypeInv
<1>2. /\ q.op = "transfer" /\ "others" \in DOMAIN q /\ Done(r)
      /\ members' = {Edited(q, x) : x \in members}
      /\ UNCHANGED <<team, contested, deposed>>
  BY <1>1, TransferRows DEF TransferOwnership, history
<1>3. Ruled' = Ruled
  BY <1>2 DEF Ruled
<1>4. /\ request'[r] = Idle
      /\ \A p \in Requests \ {r} : request'[p] = request[p]
  BY <1>2 DEF TypeInv, Done
<1>5. ASSUME q.team \in Ruled
      PROVE  Settled(q.team)
  <2>1. \A p \in Requests : request'[p].op \in OwnershipOps => request'[p].team # q.team
    <3> SUFFICES ASSUME NEW p \in Requests, request'[p].op \in OwnershipOps,
                        request'[p].team = q.team
                 PROVE  FALSE
      OBVIOUS
    <3>1. p # r
      BY <1>4, IdleHolds DEF OwnershipOps
    <3> QED
      BY <1>1, <1>2, <1>4, <1>5, <3>1 DEF OwnerInv, Alone, Ruled
  <2> QED
    BY <1>1, <1>5, <2>1, TransferSettles DEF Settled
<1>6. ReadInv(q)
  BY <1>1 DEF TypeInv
<1>7. \A x \in members : x.team # q.team => Edited(q, x) = x
  BY <1>2, <1>6 DEF ReadInv, Edited, Cleared, Promoted, Same
<1>8. \A x \in members : Edited(q, x).team = x.team
  BY <1>2 DEF Edited, Rewritten, NewMember
<1>9. ASSUME NEW s \in Ruled, s # q.team
      PROVE  Quiet(s)
  <2>1. \A m : m \in members' /\ m.team = s => m \in members
    BY <1>2, <1>7, <1>8, <1>9
  <2>2. \A m \in members : m.team = s => m \in members'
    BY <1>2, <1>7, <1>9
  <2> QED
    BY <2>1, <2>2 DEF Quiet, Owners
<1>10. contested \subseteq contested'
  BY <1>2
<1> QED
  BY <1>2, <1>3, <1>5, <1>9, <1>10, IdleGoesOn, OwnersStep

LEMMA InitialOwners == Init => OwnerInv
<1> SUFFICES ASSUME Init PROVE OwnerInv
  OBVIOUS
<1>1. \A r \in Requests : request[r].op = "idle"
  BY IdleHolds DEF Init
<1>2. ASSUME NEW t \in DOMAIN Founder
      PROVE  \E m \in Owners(t) : Owners(t) = {m} /\ m.role = "ADMIN"
  <2>1. PICK m : m = NewMember(0, t, Founder[t], "ADMIN", TRUE)
    OBVIOUS
  <2>2. m \in members /\ m.team = t /\ m.owner = TRUE /\ m.role = "ADMIN"
    BY <2>1 DEF Init, NewMember
  <2>3. ASSUME NEW x \in members, x.team = t, x.owner
        PROVE  x = m
    <3>1. CASE \E s \in DOMAIN Founder : x = NewMember(0, s, Founder[s], "ADMIN", TRUE)
      BY <2>1, <2>3, <3>1 DEF NewMember
    <3>2. CASE \E c \in Crew : x = NewMember(0, c[1], c[2], "MEMBER", FALSE)
      BY <2>3, <3>2 DEF NewMember
    <3> QED
      BY <3>1, <3>2 DEF Init
  <2>4. Owners(t) = {m}
    BY <2>2, <2>3 DEF Owners
  <2> QED
    BY <2>2, <2>4
<1>3. \A t \in Ruled : t \in DOMAIN Founder
  BY DEF Ruled, Init
<1> QED
  BY <1>1, <1>2, <1>3 DEF OwnerInv, Alone, OwnershipOps
-----------------------------------------------------------------------------
(* Accounts without a team: steps that take no membership away *)

LEMMA DoomsVersion ==
    ASSUME NEW q, NEW m, NEW x, Same(m, x)
    PROVE  Dooms(q, m) <=> Dooms(q, x)
  BY DEF Dooms, Same

LEMMA RowsStay ==
    ASSUME TypeInv, OrphanInv, spared \subseteq spared',
           \A m \in members : \E x \in members' : Same(x, m),
           UNCHANGED leavers,
           \A u \in Users : account[u] # "none" => account'[u] # "none" /\ (Live(u)' => Live(u)),
           \A p \in Requests : request'[p] = request[p] \/ ~HasCounted(request'[p])
    PROVE  OrphanInv'
<1>1. \A u \in Users, m \in members : m.user = u => \E x \in members' : x.user = u
  BY DEF Same
<1>2. OrphansAccounted' /\ \A u \in leavers' : u \in Users /\ account'[u] # "none"
  BY <1>1 DEF OrphanInv, OrphansAccounted
<1>3. ASSUME NEW p \in Requests, HasCounted(request'[p]), NEW u \in request'[p].users, Live(u)'
      PROVE  Kept(request[p], u)'
  <2>1. PICK q \in Reads : q = request[p]
    BY DEF TypeInv
  <2>2. request'[p] = q /\ q.op \in Counted /\ u \in q.users
    BY <1>3, <2>1 DEF HasCounted
  <2>3. u \in Users
    BY <2>2, CountedShape
  <2>4. account[u] # "none"
    BY <2>1, <2>2 DEF TypeInv, ReadInv
  <2>5. Kept(q, u)
    BY <1>3, <2>1, <2>2, <2>3, <2>4 DEF OrphanInv
  <2>6. Kept(q, u)'
    BY <2>5, DoomsVersion DEF Kept, Same
  <2> QED
    BY <2>2, <2>6 DEF Kept
<1>4. \A r, p \in Requests : \A u \in Users :
          /\ r # p /\ HasCounted(request'[r]) /\ HasCounted(request'[p])
          /\ u \in request'[r].users /\ u \in request'[p].users
          => u \in spared'
  BY DEF OrphanInv
<1> QED
  BY <1>2, <1>3, <1>4 DEF OrphanInv

LEMMA SameRows == ASSUME members \subseteq members'
                  PROVE  \A m \in members : \E x \in members' : Same(x, m)
  BY DEF Same

LEMMA ReadNotCounted ==
    ASSUME TypeInv, NEW r \in Requests, NEW read, request' = [request EXCEPT ![r] = read],
           ~HasCounted(read)
    PROVE  \A p \in Requests : request'[p] = request[p] \/ ~HasCounted(request'[p])
  BY DEF TypeInv

LEMMA DoneNotCounted ==
    ASSUME TypeInv, NEW r \in Requests, Done(r)
    PROVE  \A p \in Requests : request'[p] = request[p] \/ ~HasCounted(request'[p])
<1>1. ~HasCounted(Idle)
  BY IdleHolds DEF HasCounted, Counted
<1> QED
  BY <1>1, ReadNotCounted DEF Done

LEMMA NewRowOrphans ==
    ASSUME TypeInv, OrphanInv, NEW t \in TeamIds, NEW u \in Users,
           \/ CreateTeam(t, u)
           \/ AddMember(t, u)
           \/ \E role \in Roles : AdminAddMember(t, u, role) \/ AdminInvite(t, u, role)
    PROVE  OrphanInv'
<1>1. members \subseteq members' /\ UNCHANGED <<request, spared, leavers>>
  BY DEF CreateTeam, AddMember, AdminAddMember, AdminInvite, history
<1>2. \A v \in Users : account[v] # "none" => account'[v] # "none" /\ (Live(v)' => Live(v))
  BY DEF CreateTeam, AddMember, AdminAddMember, AdminInvite, Live, TypeInv, TypeOK
<1> QED
  BY <1>1, <1>2, SameRows, RowsStay

LEMMA JoinOrphans ==
    ASSUME TypeInv, OrphanInv, NEW r \in Requests, CreateInvitation(r) \/ AcceptInvitation(r)
    PROVE  OrphanInv'
<1>1. members \subseteq members' /\ Done(r) /\ UNCHANGED <<spared, leavers>>
  BY DEF CreateInvitation, AcceptInvitation, history
<1>2. \A v \in Users : account[v] # "none" => account'[v] # "none" /\ (Live(v)' => Live(v))
  <2>1. PICK u : u = request[r].user
    OBVIOUS
  <2>2. \/ UNCHANGED account
        \/ /\ account[u] \in {"none", "provisioned"}
           /\ account' = [account EXCEPT ![u] = "provisioned"]
    BY <2>1 DEF CreateInvitation, AcceptInvitation
  <2> QED
    BY <2>2 DEF Live, TypeInv, TypeOK
<1> QED
  BY <1>1, <1>2, SameRows, DoneNotCounted, RowsStay

LEMMA InvitationOrphans ==
    ASSUME TypeInv, OrphanInv,
           \/ \E i \in invites : DeleteInvitation(i) \/ Expire(i) \/ MaybeClaimInvitation(i)
           \/ \E u \in Users : SignIn(u) \/ CreateUser(u)
           \/ \E r \in Requests : SetPassword(r) \/ Fail(r)
    PROVE  OrphanInv'
<1>1. UNCHANGED <<members, spared, leavers>>
  BY DEF DeleteInvitation, Expire, MaybeClaimInvitation, SignIn, CreateUser, SetPassword, Fail,
         tables, history
<1>2. \A p \in Requests : request'[p] = request[p] \/ ~HasCounted(request'[p])
  BY DoneNotCounted
     DEF DeleteInvitation, Expire, MaybeClaimInvitation, SignIn, CreateUser, SetPassword, Fail
<1>3. \A v \in Users : account[v] # "none" => account'[v] # "none" /\ (Live(v)' => Live(v))
  <2>1. CASE UNCHANGED account
    BY <2>1 DEF Live
  <2>2. CASE \E u \in Users : SignIn(u) \/ CreateUser(u)
    BY <2>2 DEF SignIn, CreateUser, Live, TypeInv, TypeOK
  <2>3. CASE \E r \in Requests : SetPassword(r)
    BY <2>3 DEF SetPassword, Live, TypeInv, TypeOK
  <2> QED
    BY <2>1, <2>2, <2>3 DEF DeleteInvitation, Expire, MaybeClaimInvitation, Fail, tables
<1> QED
  BY <1>1, <1>2, <1>3, SameRows, RowsStay

LEMMA BeginOrphans ==
    ASSUME TypeInv, OrphanInv, NEW r \in Requests,
           \/ \E t \in TeamIds, u \in Users, role \in Roles :
                 BeginInvite(r, t, u, role) \/ BeginChangeRole(r, t, u, role)
           \/ \E t \in TeamIds, u \in Users :
                 BeginTransfer(r, t, u) \/ \E panel \in BOOLEAN : BeginRemove(r, t, u, panel)
           \/ \E i \in invites : BeginAccept(r, i) \/ BeginSetPassword(r, i)
           \/ \E t \in TeamIds, users \in SUBSET Users : BeginDeleteTeam(r, t, users)
           \/ ScanOwners(r)
    PROVE  OrphanInv'
<1>1. UNCHANGED <<account, members, spared, leavers>>
  BY DEF BeginInvite, BeginAccept, BeginSetPassword, BeginDeleteTeam, BeginChangeRole,
         BeginTransfer, BeginRemove, ScanOwners, Begin, Continue, tables, history
<1>2. \E read : request' = [request EXCEPT ![r] = read] /\ ~HasCounted(read)
  <2>1. ASSUME NEW t, NEW u, NEW role, BeginChangeRole(r, t, u, role)
        PROVE  \E read : request' = [request EXCEPT ![r] = read] /\ ~HasCounted(read)
    <3>1. PICK read : read = [op |-> "role", team |-> t, row |-> RowOf(t, u), role |-> role]
      OBVIOUS
    <3>2. ~HasCounted(read)
      BY <3>1 DEF HasCounted
    <3>3. request' = [request EXCEPT ![r] = read]
      BY <2>1, <3>1 DEF BeginChangeRole, Begin
    <3> QED
      BY <3>2, <3>3
  <2>2. ASSUME NEW t, NEW u, BeginTransfer(r, t, u)
        PROVE  \E read : request' = [request EXCEPT ![r] = read] /\ ~HasCounted(read)
    <3>1. PICK read : read = [op |-> "transfer", team |-> t, row |-> RowOf(t, u)]
      OBVIOUS
    <3>2. ~HasCounted(read)
      BY <3>1 DEF HasCounted
    <3>3. request' = [request EXCEPT ![r] = read]
      BY <2>2, <3>1 DEF BeginTransfer, Begin
    <3> QED
      BY <3>2, <3>3
  <2>3. ASSUME NEW t, NEW u, NEW panel, BeginRemove(r, t, u, panel)
        PROVE  \E read : request' = [request EXCEPT ![r] = read] /\ ~HasCounted(read)
    <3>1. PICK read : read = [op |-> "remove", team |-> t, rows |-> {RowOf(t, u)}, users |-> {u},
                              panel |-> panel]
      OBVIOUS
    <3>2. ~HasCounted(read)
      BY <3>1 DEF HasCounted
    <3>3. request' = [request EXCEPT ![r] = read]
      BY <2>3, <3>1 DEF BeginRemove, Begin
    <3> QED
      BY <3>2, <3>3
  <2>4. ASSUME ScanOwners(r)
        PROVE  \E read : request' = [request EXCEPT ![r] = read] /\ ~HasCounted(read)
    <3>1. PICK q : q = request[r]
      OBVIOUS
    <3>2. PICK read : read = [op |-> "transfer", team |-> q.team, row |-> q.row,
                              others |-> OthersOwning(q)]
      OBVIOUS
    <3>3. ~HasCounted(read)
      BY <3>2 DEF HasCounted
    <3>4. request' = [request EXCEPT ![r] = read]
      BY <2>4, <3>1, <3>2 DEF ScanOwners, Continue
    <3> QED
      BY <3>3, <3>4
  <2> QED
    BY <2>1, <2>2, <2>3, <2>4, OtherReads
<1>3. \A p \in Requests : request'[p] = request[p] \/ ~HasCounted(request'[p])
  BY <1>2, ReadNotCounted
<1>4. \A v \in Users : account[v] # "none" => account'[v] # "none" /\ (Live(v)' => Live(v))
  BY <1>1 DEF Live
<1> QED
  BY <1>1, <1>3, <1>4, SameRows, RowsStay

LEMMA EditedOrphans ==
    ASSUME TypeInv, OrphanInv, NEW r \in Requests, ChangeRole(r) \/ TransferOwnership(r)
    PROVE  OrphanInv'
<1>1. PICK q \in Reads : q = request[r]
  BY DEF TypeInv
<1>2. q.op = "role" \/ q.op = "transfer"
  BY <1>1 DEF ChangeRole, TransferOwnership
<1>3. members' = {Edited(q, x) : x \in members}
  BY <1>1, ChangeRoleRows, TransferRows
<1>4. \A x \in members : Edited(q, x) \in members' /\ Same(Edited(q, x), x)
  BY <1>2, <1>3, EditedType DEF TypeInv, TypeOK
<1>5. Done(r) /\ UNCHANGED <<account, spared, leavers>>
  BY DEF ChangeRole, TransferOwnership, history
<1>6. \A v \in Users : account[v] # "none" => account'[v] # "none" /\ (Live(v)' => Live(v))
  BY <1>5 DEF Live
<1> QED
  BY <1>4, <1>5, <1>6, DoneNotCounted, RowsStay
-----------------------------------------------------------------------------
(* Accounts without a team: counts and removals *)

LEMMA CountOrphans ==
    ASSUME TypeInv, OrphanInv, NEW r \in Requests, CountMemberships(r)
    PROVE  OrphanInv'
<1>1. PICK q \in Reads : q = request[r]
  BY DEF TypeInv
<1>2. PICK read : read = [op |-> q.op, team |-> q.team, rows |-> q.rows, users |-> q.users,
                          panel |-> q.panel, orphans |-> Orphans(q)]
  OBVIOUS
<1>3. /\ q.op \in Counted /\ request' = [request EXCEPT ![r] = read]
      /\ UNCHANGED <<account, members>>
  BY <1>1, <1>2 DEF CountMemberships, Continue, tables
<1>4. /\ request'[r] = read
      /\ \A p \in Requests \ {r} : request'[p] = request[p]
  BY <1>3 DEF TypeInv
<1>5. /\ spared \subseteq spared'
      /\ \A p \in Requests \ {r}, u \in q.users :
            HasCounted(request[p]) /\ u \in request[p].users => u \in spared'
  BY <1>1 DEF CountMemberships, HasCounted
<1>6. \A s, p \in Requests : \A u \in Users :
          /\ s # p /\ HasCounted(request'[s]) /\ HasCounted(request'[p])
          /\ u \in request'[s].users /\ u \in request'[p].users
          => u \in spared'
  <2> SUFFICES ASSUME NEW s \in Requests, NEW p \in Requests, NEW u \in Users, s # p,
                      HasCounted(request'[s]), HasCounted(request'[p]),
                      u \in request'[s].users, u \in request'[p].users
               PROVE  u \in spared'
    OBVIOUS
  <2>1. CASE s = r
    BY <1>2, <1>4, <1>5, <2>1
  <2>2. CASE p = r
    BY <1>2, <1>4, <1>5, <2>2
  <2>3. CASE s # r /\ p # r
    BY <1>4, <1>5, <2>3 DEF OrphanInv
  <2> QED
    BY <2>1, <2>2, <2>3
<1>7. ASSUME NEW p \in Requests, HasCounted(request'[p]), NEW u \in request'[p].users, Live(u)'
      PROVE  Kept(request[p], u)'
  <2>1. Live(u)
    BY <1>3, <1>7 DEF Live
  <2>2. CASE p # r
    <3>1. Kept(request[p], u)
      BY <1>4, <1>7, <2>1, <2>2 DEF OrphanInv
    <3> QED
      BY <1>3, <1>4, <1>5, <2>2, <3>1 DEF Kept
  <2>3. CASE p = r
    <3>1. u \in q.users /\ read.orphans = Orphans(q)
      BY <1>2, <1>4, <1>7, <2>3
    <3>2. \A m \in members : m \in Doomed(q) <=> Dooms(q, m)
      BY <1>3 DEF Doomed, Dooms, Now, Same, Counted
    <3>3. \A m : Dooms(read, m) <=> Dooms(q, m)
      BY <1>2 DEF Dooms
    <3>4. u \in Superusers \cup read.orphans \/ \E m \in members : m.user = u /\ ~Dooms(read, m)
      BY <2>1, <3>1, <3>2, <3>3 DEF Orphans
    <3> QED
      BY <1>3, <1>4, <2>3, <3>4 DEF Kept
  <2> QED
    BY <2>2, <2>3
<1>8. OrphansAccounted' /\ \A u \in leavers' : u \in Users /\ account'[u] # "none"
  <2>1. UNCHANGED leavers
    BY DEF CountMemberships
  <2> QED
    BY <1>3, <1>5, <2>1 DEF OrphanInv, OrphansAccounted, Live
<1> QED
  BY <1>6, <1>7, <1>8 DEF OrphanInv

\* A request that has counted deletes its rows and purges the accounts it
\* found without a team: the others keep a row, unless another request
\* counted on the row this one takes.
LEMMA PurgeOrphans ==
    ASSUME TypeInv, OrphanInv, NEW r \in Requests, NEW q \in Reads, q = request[r],
           HasCounted(q), Purge(PurgeOf(q), Doomed(q)), Done(r), spared \subseteq spared',
           \A m \in members : Dooms(q, m) => m.user \in q.users \cup spared',
           leavers' = leavers \cup {m.user : m \in Doomed(q)}
    PROVE  OrphanInv'
<1>1. PICK purged : purged = PurgeOf(q)
  OBVIOUS
<1>2. Doomed(q) = {m \in members : Dooms(q, m)} /\ purged \subseteq Users
  BY <1>1, PurgedTypes
<1>3. /\ account' = [u \in Users |-> IF u \in purged THEN "deleted" ELSE account[u]]
      /\ members' = {m \in members : ~Dooms(q, m) /\ m.user \notin purged}
  BY <1>1, <1>2 DEF Purge
<1>4. \A u \in Users : Live(u)' => Live(u) /\ u \notin purged
  BY <1>3 DEF Live
<1>5. /\ request'[r] = Idle
      /\ \A p \in Requests \ {r} : request'[p] = request[p]
  BY DEF TypeInv, Done
<1>6. ~HasCounted(Idle)
  BY IdleHolds DEF HasCounted, Counted
<1>7. \A s, p \in Requests : \A u \in Users :
          /\ s # p /\ HasCounted(request'[s]) /\ HasCounted(request'[p])
          /\ u \in request'[s].users /\ u \in request'[p].users
          => u \in spared'
  BY <1>5, <1>6 DEF OrphanInv
<1>8. ASSUME NEW p \in Requests, HasCounted(request'[p]), NEW u \in request'[p].users, Live(u)'
      PROVE  Kept(request[p], u)'
  <2>1. PICK o \in Reads : o = request[p] /\ request'[p] = o /\ p # r
    BY <1>5, <1>6, <1>8 DEF TypeInv
  <2>2. u \in o.users /\ u \in Users /\ HasCounted(o)
    BY <1>8, <2>1, CountedShape DEF HasCounted
  <2>3. Kept(o, u)
    BY <1>4, <1>8, <2>1, <2>2 DEF OrphanInv
  <2>4. CASE u \in Superusers \cup spared \cup o.orphans
    BY <2>1, <2>4 DEF Kept
  <2>5. CASE \E m \in members : m.user = u /\ ~Dooms(o, m)
    <3>1. PICK m \in members : m.user = u /\ ~Dooms(o, m)
      BY <2>5
    <3>2. CASE Dooms(q, m)
      <4>1. u \in q.users => u \in spared
        BY <2>1, <2>2 DEF OrphanInv
      <4>2. u \in spared'
        BY <3>1, <3>2, <4>1
      <4> QED
        BY <4>2 DEF Kept
    <3>3. CASE ~Dooms(q, m)
      <4>1. m \in members'
        BY <1>3, <1>4, <1>8, <2>2, <3>1, <3>3
      <4> QED
        BY <2>1, <3>1, <4>1 DEF Kept
    <3> QED
      BY <3>2, <3>3
  <2> QED
    BY <2>3, <2>4, <2>5 DEF Kept
<1>9. \A u \in leavers' : u \in Users /\ account'[u] # "none"
  <2>1. \A m \in members : m.user \in Users /\ Live(m.user)
    BY DEF TypeInv, TypeOK, Member
  <2>2. \A u \in leavers' : u \in Users /\ account[u] # "none"
    BY <1>2, <2>1 DEF OrphanInv, Live
  <2> QED
    BY <1>3, <2>2
<1>10. ASSUME NEW u \in leavers', Live(u)', u \notin Superusers \cup Authors \cup spared'
      PROVE  \E m \in members' : m.user = u
  <2>1. u \in Users /\ Live(u) /\ u \notin purged /\ u \notin spared
    BY <1>4, <1>9, <1>10
  <2>2. PICK m \in members : m.user = u
    BY <1>2, <1>10, <2>1 DEF OrphanInv, OrphansAccounted
  <2>3. CASE ~Dooms(q, m)
    BY <1>3, <2>1, <2>2, <2>3
  <2>4. CASE Dooms(q, m)
    <3>1. u \in q.users
      BY <1>10, <2>2, <2>4
    <3>2. Kept(q, u)
      BY <2>1, <3>1 DEF OrphanInv
    <3>3. u \notin q.orphans
      BY <1>1, <1>10, <2>1 DEF PurgeOf
    <3>4. PICK n \in members : n.user = u /\ ~Dooms(q, n)
      BY <1>10, <2>1, <3>2, <3>3 DEF Kept
    <3> QED
      BY <1>3, <2>1, <3>4
  <2> QED
    BY <2>3, <2>4
<1>11. OrphansAccounted'
  BY <1>10 DEF OrphansAccounted
<1> QED
  BY <1>7, <1>8, <1>9, <1>11 DEF OrphanInv

LEMMA RemovalOrphans ==
    ASSUME TypeInv, OrphanInv, NEW r \in Requests, RemoveMember(r) \/ DeleteTeam(r)
    PROVE  OrphanInv'
<1>1. PICK q \in Reads : q = request[r]
  BY DEF TypeInv
<1>2. /\ HasCounted(q) /\ Purge(PurgeOf(q), Doomed(q)) /\ Done(r) /\ spared \subseteq spared'
      /\ leavers' = leavers \cup {m.user : m \in Doomed(q)}
  BY <1>1 DEF RemoveMember, DeleteTeam, HasCounted, Counted
<1>3. ASSUME NEW m \in members, Dooms(q, m)
      PROVE  m.user \in q.users \cup spared'
  <2>1. CASE RemoveMember(r)
    <3>1. q.op = "remove"
      BY <1>1, <2>1 DEF RemoveMember
    <3>2. \A x \in q.rows : x.user \in q.users
      BY <1>1, <3>1 DEF TypeInv, ReadInv, Counted
    <3> QED
      BY <1>3, <3>1, <3>2 DEF Dooms, Same
  <2>2. CASE DeleteTeam(r)
    <3>1. q.op = "delete" /\ spared' = spared \cup ({x.user : x \in Doomed(q)} \ q.users)
      BY <1>1, <2>2 DEF DeleteTeam
    <3>2. m \in Doomed(q)
      BY <1>3, <3>1 DEF Doomed, Dooms
    <3> QED
      BY <3>1, <3>2
  <2> QED
    BY <2>1, <2>2
<1> QED
  BY <1>1, <1>2, <1>3, PurgeOrphans

LEMMA RemoveAccountOrphans ==
    ASSUME TypeInv, OrphanInv, NEW u \in Users, RemoveAccount(u)
    PROVE  OrphanInv'
<1>1. /\ account' = [v \in Users |-> IF v = u THEN "deleted" ELSE account[v]]
      /\ members' = {m \in members : m.user # u}
      /\ UNCHANGED <<request, spared, leavers>>
  BY DEF RemoveAccount, Purge
<1>2. \A v \in Users : Live(v)' => Live(v) /\ v # u
  BY <1>1 DEF Live
<1>3. OrphansAccounted' /\ \A v \in leavers' : v \in Users /\ account'[v] # "none"
  BY <1>1, <1>2 DEF OrphanInv, OrphansAccounted
<1>4. ASSUME NEW p \in Requests, HasCounted(request[p]), NEW v \in request[p].users, Live(v)'
      PROVE  Kept(request[p], v)'
  <2>1. v \in Users
    BY <1>4, CountedShape DEF TypeInv, HasCounted
  <2>2. Kept(request[p], v)
    BY <1>2, <1>4, <2>1 DEF OrphanInv
  <2> QED
    BY <1>1, <1>2, <1>4, <2>1, <2>2 DEF Kept
<1> QED
  BY <1>1, <1>3, <1>4 DEF OrphanInv

LEMMA InitialOrphans == Init => OrphanInv
<1> SUFFICES ASSUME Init PROVE OrphanInv
  OBVIOUS
<1>1. \A r \in Requests : ~HasCounted(request[r])
  BY IdleHolds DEF Init, HasCounted, Counted
<1>2. leavers = {} /\ OrphansAccounted
  BY DEF Init, OrphansAccounted
<1> QED
  BY <1>1, <1>2 DEF OrphanInv

-----------------------------------------------------------------------------
(* The invariants *)

LEMMA OwnersInvariant == Spec => []OwnerInv
<1>1. TypeInv /\ OwnerInv /\ [Next]_vars => OwnerInv'
  <2> SUFFICES ASSUME TypeInv, OwnerInv, [Next]_vars PROVE OwnerInv'
    OBVIOUS
  <2>1. CASE UNCHANGED vars
    BY <2>1, OtherOwnership DEF vars
  <2>2. CASE Memberships
    BY <2>2, CreateTeamOwnership, AddOwnership, BeginChangeRoleOwnership,
       BeginTransferOwnership, BeginRemoveOwnership, BeginOwnership, RemoveAccountOwnership,
       ChangeRoleOwnership, ScanOwnership, TransferOwnershipSettles, CountOwnership,
       RemoveMemberOwnership, DeleteTeamOwnership, InvitationOwnership DEF Memberships
  <2>3. CASE Invitations
    BY <2>3, BeginOwnership, InvitationOwnership, JoinOwnership DEF Invitations
  <2> QED
    BY <2>1, <2>2, <2>3, InvitationOwnership DEF Next
<1> QED
  BY <1>1, InitialOwners, TypesInvariant, PTL DEF Spec

LEMMA OrphansInvariant == Spec => []OrphanInv
<1>1. TypeInv /\ OrphanInv /\ [Next]_vars => OrphanInv'
  <2> SUFFICES ASSUME TypeInv, OrphanInv, [Next]_vars PROVE OrphanInv'
    OBVIOUS
  <2>1. CASE UNCHANGED vars
    BY <2>1, SameRows, RowsStay DEF vars, Live
  <2>2. CASE Memberships
    BY <2>2, NewRowOrphans, BeginOrphans, RemoveAccountOrphans, EditedOrphans, CountOrphans,
       RemovalOrphans, InvitationOrphans DEF Memberships
  <2>3. CASE Invitations
    BY <2>3, BeginOrphans, InvitationOrphans, JoinOrphans DEF Invitations
  <2> QED
    BY <2>1, <2>2, <2>3, InvitationOrphans DEF Next
<1> QED
  BY <1>1, InitialOrphans, TypesInvariant, PTL DEF Spec

\* However members join, leave, are purged and change roles at the same
\* time, a live team has exactly one owner, an admin, unless a transfer ran
\* beside another change of its members or its owner's row was taken.
THEOREM OwnershipIsAccounted == Spec => []OwnershipAccounted
<1>1. OwnerInv => OwnershipAccounted
  BY DEF OwnerInv, OwnershipAccounted, Ruled
<1> QED
  BY <1>1, OwnersInvariant, PTL

\* An account that lost its last membership and was not deleted with it is a
\* superuser, an author, or one whose last two memberships were taken by
\* requests that each counted the other's, or that joined a team while it was
\* deleted, or deleted its own.
THEOREM OrphansAreAccounted == Spec => []OrphansAccounted
<1>1. OrphanInv => OrphansAccounted
  BY DEF OrphanInv
<1> QED
  BY <1>1, OrphansInvariant, PTL
=============================================================================
