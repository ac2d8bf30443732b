SPECIFICATION Spec
CONSTANTS
    p1 = p1
    p2 = p2
    r1 = r1
    r2 = r2
    NoProvider = NoProvider
    Providers = {p1, p2}
    Requests = {r1, r2}
    Strikes = 2
    MaxCalls = 5
INVARIANTS ActivationEquivalent
\* The handlers only run when they are called.
CHECK_DEADLOCK FALSE
