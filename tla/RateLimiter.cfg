SPECIFICATION FairSpec
CONSTANTS
    q1 = q1
    q2 = q2
    q3 = q3
    Requests = {q1, q2, q3}
    Cancellable = {q2, q3}
    Limits <- FixedThenSliding
    Lateness = 1
    MaxTime = 4
    NoRequest = NoRequest
CHECK_DEADLOCK FALSE
INVARIANTS
    RingHoldsLastReleases
PROPERTIES
    ImplementsSlidingWindow
    DelayedOnlyWhenExhausted
    AnsweredUnlessLockIsLost
