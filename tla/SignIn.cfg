SPECIFICATION Spec
CONSTANTS
    a = a
    b = b
    r1 = r1
    r2 = r2
    Ips = {a, b}
    Codes = {"code"}
    FailureThreshold = 2
    Window = 1
    Duration = 1
    Throttle = 2
    Requests = {r1, r2}
    MaxNow = 3
    MaxCalls = 5
SYMMETRY Symmetry
INVARIANTS TypeOK FailuresBounded LockIsAnnounced SecondFactorOnce
\* The handlers only run when they are called.
CHECK_DEADLOCK FALSE
