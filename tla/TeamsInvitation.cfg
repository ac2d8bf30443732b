SPECIFICATION Spec
CONSTANTS
    u1 = u1
    u2 = u2
    u3 = u3
    t1 = t1
    t2 = t2
    t3 = t3
    r1 = r1
    r2 = r2
    Users = {u1, u2, u3}
    Superusers = {}
    Authors = {}
    TeamIds = {t1, t2, t3}
    Founder <- TheFounder
    Crew <- TheCrew
    Requests = {r1, r2}
    MaxCalls = 3
INVARIANTS AcceptedIsMember
\* The handlers only run when they are called.
CHECK_DEADLOCK FALSE
