SPECIFICATION Spec
CONSTANTS
    a = a
    b = b
    r1 = r1
    r2 = r2
    Ips = {a}
    Codes = {}
    FailureThreshold = 3
    Window = 1
    Duration = 1
    Throttle = 2
    Requests = {r1}
    MaxNow = 1
    MaxCalls = 4
INVARIANT LockedAtThreshold
\* The handlers only run when they are called.
CHECK_DEADLOCK FALSE
