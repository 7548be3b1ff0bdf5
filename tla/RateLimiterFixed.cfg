SPECIFICATION Spec
CONSTANTS
    q1 = q1
    q2 = q2
    q3 = q3
    Requests = {q1, q2, q3}
    Cancellable = {}
    Limits <- FixedBoth
    Lateness = 0
    MaxTime = 5
    NoRequest = NoRequest
CHECK_DEADLOCK FALSE
INVARIANT FixedWindowsRespected
