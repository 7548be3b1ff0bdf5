SPECIFICATION FairSpec
CONSTANTS
    q1 = q1
    q2 = q2
    q3 = q3
    q4 = q4
    Requests = {q1, q2, q3}
    Cancellable = {q3}
    Limits <- SlidingWait
    Lateness = 0
    MaxTime = 4
    NoRequest = NoRequest
CHECK_DEADLOCK FALSE
PROPERTY TakenIsAnswered
